---- MODULE Spec2Model ----
(***************************************************************************)
(* A state-machine model of the Mesos master (src/master/master.cpp and    *)
(* src/master/master.hpp).  Every handler of the master is one action; the *)
(* allocator and the registrar are modelled by the calls the master makes  *)
(* on them.                                                                *)
(***************************************************************************)
EXTENDS Integers, Sequences, FiniteSets, TLC

\* ------------------------------------------------------------------
\* Bounds of the universe explored.
\* ------------------------------------------------------------------
\* Framework ids: 0 was minted by an earlier master, 1.. by newFrameworkId.
MaxFrameworkId == 1
\* Slave ids: 0 was minted by an earlier master, 1.. by newSlaveId.
MaxSlaveId == 1
MaxTaskId == 2
MaxOfferId == 2
\* Total resources of a worker, and the largest resource request of a task.
TotalRes == 2
\* Cap of the dropped_messages counter.
MaxDropped == 3
\* Longest list of tasks in one LaunchTasks message.
MaxBatch == 2
\* Longest list of offer ids in one LaunchTasks message.
MaxOfferList == 2
\* Status update uuids a worker draws from.
MaxUuid == 1
\* Capacity of the completed-frameworks buffer and of the removed-slaves cache.
MaxCompleted == 2
MaxRemoved == 1
\* (Re-)registrations and launches that may wait for a future at a time.
MaxValidating == 1
MaxLaunching == 1
\* Launches of one framework that wait for their authorizations together.
MaxConcurrent == 2
\* Capacity of the rate limiter, and the events of schedulers that arrive.
RateCapacity == 2
MaxArrivals == 4
\* Memberships of the ZooKeeper group, fetches of their data that are
\* outstanding for one membership, and detect() calls that wait.
MaxMembership == 2
MaxFetches == 2
MaxPromises == 2
\* Operations the registrar may hold before it applies them.
MaxOperations == 2
\* MAX_SLAVE_PING_TIMEOUTS: the timeouts at which a slave observer gives up.
MaxSlavePingTimeouts == 2
\* Futures given to await (future 0 is the one await returns), callbacks the
\* callers register, and the longest list given to await.
MaxFutureId == 2
MaxCallbacks == 2
MaxAwaited == 2

FrameworkIDs == 0..MaxFrameworkId
SlaveIDs == 0..MaxSlaveId
TaskIDs == 1..MaxTaskId
\* The tasks an earlier master launched on the worker it named slave 0.
MaxEarlierTaskId == 1
EarlierTaskIDs == 1..MaxEarlierTaskId
OfferIDs == 1..MaxOfferId
\* Addresses (UPID) of scheduler processes and of worker processes.
FrameworkPids == {"a1", "a2"}
SlavePids == {"w1", "w2"}
NoPid == "none"
NoId == 0 - 1

Min(a, b) == IF a < b THEN a ELSE b
Minus(a, b) == IF a > b THEN a - b ELSE 0

\* protobuf::isTerminalState
TerminalStates == {"FINISHED", "FAILED", "KILLED", "LOST", "ERROR"}
isTerminalState(s) == s \in TerminalStates

\* Resources of the one executor a task may name (ExecutorInfo.resources).
ExecRes == 1

VARIABLES
  proc,          \* "running", "exited" (EXIT) or "aborted" (CHECK / LOG(FATAL))
  leader,        \* Master::leader: "none", "self" or "other"
  recovered,     \* Master::recovered: "none", "pending" or "ready"
  dropped,       \* metrics.dropped_messages
  nextFrameworkId, nextSlaveId, nextOfferId,
  fw,            \* frameworks.registered: id -> Framework (pid = NoPid: absent)
  completed,     \* frameworks.completed (circular buffer of ids)
  principals,    \* keys of frameworks.principals
  fpending,      \* Framework::pendingTasks (ids)
  ftasks,        \* Framework::tasks: id -> the slave whose Task it points to
  fexecs,        \* Framework::executors: slaves with the executor
  foffers,       \* Framework::offers
  sl,            \* slaves.registered: id -> Slave (pid = NoPid: absent)
  stasks,        \* Slave::tasks[frameworkId][taskId]: the Task objects
  sexecs,        \* Slave::executors: frameworks with the executor
  soffers,       \* Slave::offers
  sused,         \* Slave::usedResources[frameworkId]
  srecovered, sregistering, sreregistering, sremoving, sremoved,
  offers,        \* Master::offers: id -> Offer (fid = NoId: absent)
  registry,      \* slave ids stored by the registrar
  strict,        \* flags.registry_strict
  regQueue,      \* registrar operations applied but not yet answered
  alloc,         \* allocator: resources allocated per slave (NoId: unknown)
  validating,    \* (re-)registrations waiting for validate()
  launching,     \* LaunchTasks waiting for await(authorizations)
  timers,        \* pending frameworkFailoverTimeout(id, reregisteredTime)
  wid,           \* the slave id each worker process believes it has
  limiter,       \* the BoundedRateLimiter of the schedulers' principal
  observer,      \* Slave::observer: the SlaveObserver process of each slave
  futures,       \* process::Future<T>::Data of some futures, and an AwaitProcess
  detector,      \* the ZooKeeperMasterDetectorProcess
  out,           \* history: messages sent by the last step
  transitions,   \* history: <<old state, new state>> of the tasks updated last
  recovLog,      \* history: recoveries counted for the tasks removed last
  outcome,       \* history: what happened to each task of the last launch
  request,       \* history: what the last ReconcileTasks asked
  lastEvent      \* history: what the last step was

vars == <<proc, leader, recovered, dropped, nextFrameworkId, nextSlaveId,
          nextOfferId, fw, completed, principals, fpending, ftasks, fexecs,
          foffers, sl, stasks, sexecs, soffers, sused, srecovered,
          sregistering, sreregistering, sremoving, sremoved, offers, registry,
          strict, regQueue, alloc, validating, launching, timers, wid, limiter,
          observer, futures, detector, out, transitions, recovLog, outcome, request,
          lastEvent>>

NoFramework ==
  [pid |-> NoPid, connected |-> FALSE, active |-> FALSE, checkpoint |-> FALSE,
   reregisteredTime |-> 0]
NoSlave ==
  [pid |-> NoPid, connected |-> FALSE, active |-> FALSE, checkpoint |-> FALSE,
   version |-> FALSE]
\* A Task; sus and uuid are status_update_state and status_update_uuid.
\* History: charged says that the allocator counts the task's resources as
\* allocated, recov counts the recoverResources calls made for the task.
NoTask == [state |-> "NONE", sus |-> "NONE", uuid |-> NoId, res |-> 0,
           charged |-> FALSE, recov |-> 0]
NoOffer == [fid |-> NoId, sid |-> NoId, res |-> 0]

\* History of one launch: per task of the batch what the master did for it.
NoOutcome == [f |-> NoId, stayed |-> FALSE, killed |-> {}, ids |-> <<>>,
              results |-> <<>>]

\* History of one ReconcileTasks: the framework and the statuses it names.
NoRequest == [f |-> NoId, statuses |-> {}]

\* No limiter is configured (flags.rate_limits is not set).  With one: on,
\* messages counts the outstanding messages, waiting holds the events whose
\* acquire() is not ready yet, oldest first.  History: arrived counts the
\* events of schedulers seen so far, last is per address the arrival number
\* of the last event handled.
NoLimiter ==
  [on |-> FALSE, messages |-> 0, waiting |-> <<>>, arrived |-> 0,
   last |-> [p \in FrameworkPids |-> 0]]

\* A SlaveObserver: at is "none" (no process), "spawned" (not yet
\* initialized), "waiting" (for the ping timeout) or "stopped" (it asked for
\* the shutdown); sent counts the pings sent since the last pong; shutdown
\* holds while its dispatch of Master::shutdownSlave is on the way.
NoObserver ==
  [at |-> "none", timeouts |-> 0, pinged |-> FALSE, sent |-> 0,
   shutdown |-> FALSE]

\* The detector: its cached leader (NoId is None), whether it has failed
\* for good, the detect() calls that wait, the group->data calls that are
\* outstanding per membership; history: the membership of the last
\* leadership change it has seen, the membership of the fetch handled last,
\* and what it told its callers last.
Memberships == 1..MaxMembership
NoDetector ==
  [leader |-> NoId, error |-> FALSE, promises |-> 0,
   fetching |-> [m \in Memberships |-> 0],
   observed |-> NoId, fetchedFor |-> NoId,
   reported |-> [kind |-> "nothing", leader |-> NoId]]

\* Future<T>::Data.  A callback is [kind, id]: kind "app" is a callback of
\* a caller, "waited" and "discarded" are the deferred calls of AwaitProcess.
FutureIDs == 0..MaxFutureId
InputIDs == 1..MaxFutureId
CallbackIDs == 1..MaxCallbacks
NoData ==
  [state |-> "PENDING", discard |-> FALSE, associated |-> FALSE, t |-> NoId,
   message |-> "",
   onDiscardCallbacks |-> <<>>, onReadyCallbacks |-> <<>>,
   onFailedCallbacks |-> <<>>, onDiscardedCallbacks |-> <<>>,
   onAnyCallbacks |-> <<>>]
\* data are the futures; completing and discarding hold the futures whose
\* set, fail or discard has changed the state or the discard flag under the
\* lock and has not run the callbacks yet; await is the AwaitProcess.
\* History: runs counts the calls of each callback of a caller, registered
\* is where it was registered, won counts the set, fail and discard calls
\* that returned true, last is the last call and what it returned, awaited
\* is the list await was called with.  after is the latch and the timer of
\* one Future<T>::after; history: how often its handler ran, whether the
\* handler or the completion of the future decided, and whether the future
\* was pending when the timer fired.
NoFutures ==
  [data |-> [i \in FutureIDs |-> NoData],
   completing |-> {}, discarding |-> {},
   await |-> [at |-> "none", futures |-> <<>>, ready |-> 0, mailbox |-> <<>>],
   runs |-> [c \in CallbackIDs |-> 0],
   registered |-> [c \in CallbackIDs |-> [f |-> NoId, kind |-> "none"]],
   won |-> [i \in FutureIDs |-> 0],
   last |-> [op |-> "none", f |-> NoId, result |-> FALSE],
   awaited |-> <<>>,
   after |-> [latch |-> "none", timer |-> "none", handled |-> 0,
              by |-> "none", pending |-> FALSE]]

\* The master's state as one record, so that a handler is a function on it.
M ==
  [proc |-> proc, leader |-> leader, recovered |-> recovered,
   dropped |-> dropped, nextFrameworkId |-> nextFrameworkId,
   nextSlaveId |-> nextSlaveId, nextOfferId |-> nextOfferId, fw |-> fw,
   completed |-> completed, principals |-> principals, fpending |-> fpending,
   ftasks |-> ftasks, fexecs |-> fexecs, foffers |-> foffers, sl |-> sl,
   stasks |-> stasks, sexecs |-> sexecs, soffers |-> soffers, sused |-> sused,
   srecovered |-> srecovered, sregistering |-> sregistering,
   sreregistering |-> sreregistering, sremoving |-> sremoving,
   sremoved |-> sremoved, offers |-> offers, registry |-> registry,
   strict |-> strict, regQueue |-> regQueue, alloc |-> alloc,
   validating |-> validating, launching |-> launching, timers |-> timers,
   wid |-> wid, limiter |-> limiter, observer |-> observer,
   futures |-> futures, detector |-> detector, out |-> {},
   transitions |-> {},
   recovLog |-> {}, outcome |-> NoOutcome, request |-> NoRequest,
   lastEvent |-> lastEvent]

\* The state right after construction, for a registry and worker processes
\* left by an earlier master.
Fresh(reg, isStrict, w) ==
  [proc |-> "running", leader |-> "none", recovered |-> "none",
   dropped |-> 0, nextFrameworkId |-> 1, nextSlaveId |-> 1,
   nextOfferId |-> 1,
   fw |-> [f \in FrameworkIDs |-> NoFramework],
   completed |-> <<>>, principals |-> {},
   fpending |-> [f \in FrameworkIDs |-> {}],
   ftasks |-> [f \in FrameworkIDs |-> [t \in TaskIDs |-> NoId]],
   fexecs |-> [f \in FrameworkIDs |-> {}],
   foffers |-> [f \in FrameworkIDs |-> {}],
   sl |-> [s \in SlaveIDs |-> NoSlave],
   stasks |-> [s \in SlaveIDs |-> [f \in FrameworkIDs |->
                [t \in TaskIDs |-> NoTask]]],
   sexecs |-> [s \in SlaveIDs |-> {}],
   soffers |-> [s \in SlaveIDs |-> {}],
   sused |-> [s \in SlaveIDs |-> [f \in FrameworkIDs |-> 0]],
   srecovered |-> {}, sregistering |-> {}, sreregistering |-> {},
   sremoving |-> {}, sremoved |-> <<>>,
   offers |-> [o \in OfferIDs |-> NoOffer],
   registry |-> reg, strict |-> isStrict, regQueue |-> <<>>,
   alloc |-> [s \in SlaveIDs |-> NoId],
   validating |-> {}, launching |-> {}, timers |-> {},
   wid |-> w, limiter |-> NoLimiter,
   observer |-> [s \in SlaveIDs |-> NoObserver], futures |-> NoFutures,
   detector |-> NoDetector,
   out |-> {},
   transitions |-> {},
   recovLog |-> {}, outcome |-> NoOutcome, request |-> NoRequest,
   lastEvent |-> "init"]

\* The worker processes learn their slave id from SlaveRegistered and forget
\* it when told to shut down.
Deliver(st) ==
  [st EXCEPT !.wid = [w \in SlavePids |->
     IF \E m \in st.out : m.type = "Shutdown" /\ m.to = w THEN NoId
     ELSE IF \E m \in st.out : m.type = "SlaveRegistered" /\ m.to = w
     THEN (CHOOSE m \in st.out : m.type = "SlaveRegistered" /\ m.to = w).s
     ELSE st.wid[w]],
     \* A failover timer whose framework is gone or has another
     \* reregisteredTime does nothing when it fires: it fires at once.
     !.timers = {x \in @ : /\ st.fw[x[1]].pid # NoPid
                           /\ st.fw[x[1]].reregisteredTime = x[2]}]

\* The handler's result becomes the next state.  EXIT, a failed CHECK or
\* LOG(FATAL) end the process: nothing of its memory survives.
Become(st0, event) ==
  LET st == IF st0.proc = "running"
            THEN [Deliver(st0) EXCEPT !.lastEvent = event]
            ELSE [Fresh(registry, strict, wid) EXCEPT
                    !.proc = st0.proc, !.leader = st0.leader,
                    !.lastEvent = event]
  IN /\ proc' = st.proc /\ leader' = st.leader /\ recovered' = st.recovered
     /\ dropped' = st.dropped /\ nextFrameworkId' = st.nextFrameworkId
     /\ nextSlaveId' = st.nextSlaveId /\ nextOfferId' = st.nextOfferId
     /\ fw' = st.fw /\ completed' = st.completed
     /\ principals' = st.principals /\ fpending' = st.fpending
     /\ ftasks' = st.ftasks /\ fexecs' = st.fexecs /\ foffers' = st.foffers
     /\ sl' = st.sl /\ stasks' = st.stasks /\ sexecs' = st.sexecs
     /\ soffers' = st.soffers /\ sused' = st.sused
     /\ srecovered' = st.srecovered /\ sregistering' = st.sregistering
     /\ sreregistering' = st.sreregistering /\ sremoving' = st.sremoving
     /\ sremoved' = st.sremoved /\ offers' = st.offers
     /\ registry' = st.registry /\ strict' = st.strict
     /\ regQueue' = st.regQueue /\ alloc' = st.alloc
     /\ validating' = st.validating /\ launching' = st.launching
     /\ timers' = st.timers /\ wid' = st.wid /\ limiter' = st.limiter
     /\ observer' = st.observer /\ futures' = st.futures
     /\ detector' = st.detector
     /\ out' = st.out /\ transitions' = st.transitions
     /\ recovLog' = st.recovLog /\ outcome' = st.outcome
     /\ request' = st.request
     /\ lastEvent' = st.lastEvent

elected == leader = "self"
\* The master handles messages: it is elected and has recovered.
Serving == elected /\ recovered = "ready"

\* foreach over a set.
ForEach(Op(_, _), st, S) ==
  LET RECURSIVE go(_, _)
      go(acc, R) == IF R = {} THEN acc
                    ELSE LET x == CHOOSE y \in R : TRUE
                         IN go(Op(acc, x), R \ {x})
  IN go(st, S)

Abort(st) == [st EXCEPT !.proc = "aborted"]
Exit(st) == [st EXCEPT !.proc = "exited"]

\* A message the master sends.
Msg(type, to, f, s, t, state) ==
  [type |-> type, to |-> to, f |-> f, s |-> s, t |-> t, state |-> state]
send(st, m) == [st EXCEPT !.out = @ \cup {m}]

getFramework(st, f) == st.fw[f].pid # NoPid
getSlave(st, s) == st.sl[s].pid # NoPid
getOffer(st, o) == st.offers[o].fid # NoId
hasTask(st, s, f, t) == st.stasks[s][f][t].state # "NONE"

\* ------------------------------------------------------------------
\* The allocator, seen through the calls the master makes on it.
\* ------------------------------------------------------------------
recoverResources(st, s, r) ==
  IF st.alloc[s] = NoId THEN st ELSE [st EXCEPT !.alloc[s] = Minus(@, r)]

\* Resources the allocator may still offer on slave s.
Available(s) == IF alloc[s] = NoId THEN 0 ELSE Minus(TotalRes, alloc[s])

\* ------------------------------------------------------------------
\* Tasks, executors and offers.
\* ------------------------------------------------------------------
UsedOf(st, s) ==
  LET RECURSIVE sum(_)
      sum(F) == IF F = {} THEN 0
                ELSE LET f == CHOOSE g \in F : TRUE
                     IN st.sused[s][f] + sum(F \ {f})
  IN sum(FrameworkIDs)

updateTask(st, s, f, t, status, latest, uuid) ==
  LET task == st.stasks[s][f][t]
      newState == IF latest # "NONE" THEN latest ELSE status
      terminated == ~isTerminalState(task.state) /\ isTerminalState(newState)
      st1 == [st EXCEPT !.stasks[s][f][t] =
                [task EXCEPT !.state = newState, !.sus = status,
                             !.uuid = uuid,
                             !.recov = IF terminated THEN @ + 1 ELSE @],
                !.transitions = @ \cup {<<task.state, newState>>}]
      st2 == recoverResources(st1, s, task.res)
      \* Slave::taskTerminated; Framework::taskTerminated checks the map.
      st3 == [st2 EXCEPT !.sused[s][f] = Minus(@, task.res)]
  IN IF isTerminalState(task.state) /\ ~isTerminalState(status) THEN st
     ELSE IF ~terminated THEN st1
     ELSE IF getFramework(st, f) /\ st.ftasks[f][t] = NoId THEN Abort(st3)
     ELSE st3

\* A removeTask that hands the resources back whatever the state of the task.
removeTaskRecoveringAgain(st, s, f, t) ==
  LET task == st.stasks[s][f][t]
      st1 == recoverResources(st, s, task.res)
      st2 == IF task.charged
             THEN [st1 EXCEPT !.recovLog = @ \cup {task.recov + 1}]
             ELSE st1
      st3 == IF getFramework(st, f) THEN [st2 EXCEPT !.ftasks[f][t] = NoId]
             ELSE st2
  IN [st3 EXCEPT !.stasks[s][f][t] = NoTask,
                 !.sused[s][f] = Minus(@, task.res)]

removeTask(st, s, f, t) ==
  LET task == st.stasks[s][f][t]
      live == ~isTerminalState(task.state)
      st1 == IF live THEN recoverResources(st, s, task.res) ELSE st
      st2 == IF task.charged
             THEN [st1 EXCEPT !.recovLog =
                     @ \cup {task.recov + (IF live THEN 1 ELSE 0)}]
             ELSE st1
      st3 == IF getFramework(st, f) THEN [st2 EXCEPT !.ftasks[f][t] = NoId]
             ELSE st2
      st4 == [st3 EXCEPT !.stasks[s][f][t] = NoTask,
                         !.sused[s][f] = IF live THEN Minus(@, task.res) ELSE @]
  IN IF getFramework(st, f) /\ st.ftasks[f][t] = NoId THEN Abort(st4) ELSE st4

removeExecutor(st, s, f) ==
  LET st1 == recoverResources(st, s, ExecRes)
      st2 == IF getFramework(st, f)
             THEN [st1 EXCEPT !.fexecs[f] = @ \ {s}] ELSE st1
      st3 == [st2 EXCEPT !.sexecs[s] = @ \ {f},
                         !.sused[s][f] = Minus(@, ExecRes)]
  IN IF f \notin st.sexecs[s] \/ (getFramework(st, f) /\ s \notin st.fexecs[f])
     THEN Abort(st3) ELSE st3

\* A removeOffer that leaves the offer in the set of its framework.
removeOfferFromMaster(st, o, rescind) ==
  [st EXCEPT !.soffers[st.offers[o].sid] = @ \ {o}, !.offers[o] = NoOffer]

removeOffer(st, o, rescind) ==
  LET offer == st.offers[o]
      f == offer.fid
      s == offer.sid
      st1 == [st EXCEPT !.foffers[f] = @ \ {o}, !.soffers[s] = @ \ {o},
                        !.offers[o] = NoOffer]
  IN IF ~getFramework(st, f) \/ o \notin st.foffers[f]
        \/ ~getSlave(st, s) \/ o \notin st.soffers[s]
     THEN Abort(st)
     ELSE IF rescind
     THEN send(st1, Msg("RescindResourceOffer", st.fw[f].pid, f, s, o, "NONE"))
     ELSE st1

\* The offers of a framework or slave are recovered and removed.
recoverOffer(st, o, rescind) ==
  removeOffer(recoverResources(st, st.offers[o].sid, st.offers[o].res),
              o, rescind)

\* ------------------------------------------------------------------
\* Frameworks.
\* ------------------------------------------------------------------
RegisteredSlaves(st) == {s \in SlaveIDs : getSlave(st, s)}
\* A slave that shows no tasks of a framework.
NoTasksOf(st, s, f) == {}
TasksOf(st, s, f) == {t \in TaskIDs : hasTask(st, s, f, t)}

\* Clock::now() read for framework f.  The master only compares the time
\* with the one a pending failover timer of f carries: the model takes the
\* least time that no such timer carries.
Now(st, f) ==
  CHOOSE n \in 1..(Cardinality(st.timers) + 1) :
    /\ <<f, n>> \notin st.timers
    /\ \A m \in 1..(n - 1) : <<f, m>> \in st.timers

deactivateFramework(st, f) ==
  ForEach(LAMBDA a, o : recoverOffer(a, o, TRUE),
          [st EXCEPT !.fw[f].active = FALSE], st.foffers[f])

disconnectFramework(st, f) ==
  deactivateFramework([st EXCEPT !.fw[f].connected = FALSE], f)

addFramework(st, f, pid, cp) ==
  LET st1 == [st EXCEPT
                !.fw[f] = [pid |-> pid, connected |-> TRUE, active |-> TRUE,
                           checkpoint |-> cp, reregisteredTime |-> Now(st, f)],
                !.principals = @ \cup {pid}]
  IN IF getFramework(st, f) \/ pid \in st.principals THEN Abort(st) ELSE st1

failoverFramework(st, f, newPid) ==
  LET oldPid == st.fw[f].pid
      st1 == IF oldPid # newPid
             THEN send(st, Msg("FrameworkError", oldPid, f, NoId, NoId, "NONE"))
             ELSE st
      st2 == send([st1 EXCEPT !.fw[f].pid = newPid],
                  Msg("FrameworkRegistered", newPid, f, NoId, NoId, "NONE"))
      st3 == ForEach(LAMBDA a, o : recoverOffer(a, o, FALSE), st2,
                     st.foffers[f])
      st4 == [st3 EXCEPT !.fw[f].connected = TRUE, !.fw[f].active = TRUE]
  IN IF oldPid # newPid /\ oldPid \in st.principals
     THEN [st4 EXCEPT !.principals = (@ \ {oldPid}) \cup {newPid}]
     ELSE st4

\* A removeFramework that does not clear the pending tasks.
removeFrameworkKeepingPending(st, f) ==
  LET st1 == ForEach(LAMBDA a, s :
                       send(a, Msg("ShutdownFramework", a.sl[s].pid, f, s,
                                   NoId, "NONE")),
                     st, RegisteredSlaves(st))
      st2 == st1
      st3 == ForEach(LAMBDA a, t :
                       LET s == st.ftasks[f][t]
                       IN IF ~getSlave(a, s) THEN Abort(a)
                          ELSE removeTask(
                                 updateTask(a, s, f, t, "KILLED", "NONE", NoId),
                                 s, f, t),
                     st2, {t \in TaskIDs : st.ftasks[f][t] # NoId})
      st4 == ForEach(LAMBDA a, o : recoverOffer(a, o, FALSE), st3,
                     st.foffers[f])
      st5 == ForEach(LAMBDA a, s :
                       IF getSlave(a, s) THEN removeExecutor(a, s, f) ELSE a,
                     st4, st.fexecs[f])
      \* push_back on the circular buffer drops the oldest entry when full.
      st6 == [st5 EXCEPT !.completed =
                IF Len(@) < MaxCompleted THEN Append(@, f)
                ELSE Append(Tail(@), f)]
      st7 == [st6 EXCEPT !.principals = @ \ {st.fw[f].pid},
                         !.fw[f] = NoFramework,
                         !.fexecs[f] = {},
                         \* history: the launches of f saw it removed
                         !.launching = {IF l.f = f
                                        THEN [l EXCEPT !.stayed = FALSE]
                                        ELSE l : l \in @}]
  IN IF st.fw[f].pid \notin st6.principals THEN Abort(st6) ELSE st7

removeFramework(st, f) ==
  LET st1 == ForEach(LAMBDA a, s :
                       send(a, Msg("ShutdownFramework", a.sl[s].pid, f, s,
                                   NoId, "NONE")),
                     st, RegisteredSlaves(st))
      st2 == [st1 EXCEPT !.fpending[f] = {}]
      st3 == ForEach(LAMBDA a, t :
                       LET s == st.ftasks[f][t]
                       IN IF ~getSlave(a, s) THEN Abort(a)
                          ELSE removeTask(
                                 updateTask(a, s, f, t, "KILLED", "NONE", NoId),
                                 s, f, t),
                     st2, {t \in TaskIDs : st.ftasks[f][t] # NoId})
      st4 == ForEach(LAMBDA a, o : recoverOffer(a, o, FALSE), st3,
                     st.foffers[f])
      st5 == ForEach(LAMBDA a, s :
                       IF getSlave(a, s) THEN removeExecutor(a, s, f) ELSE a,
                     st4, st.fexecs[f])
      \* push_back on the circular buffer drops the oldest entry when full.
      st6 == [st5 EXCEPT !.completed =
                IF Len(@) < MaxCompleted THEN Append(@, f)
                ELSE Append(Tail(@), f)]
      st7 == [st6 EXCEPT !.principals = @ \ {st.fw[f].pid},
                         !.fw[f] = NoFramework,
                         !.fexecs[f] = {},
                         \* history: the launches of f saw it removed
                         !.launching = {IF l.f = f
                                        THEN [l EXCEPT !.stayed = FALSE]
                                        ELSE l : l \in @}]
  IN IF st.fw[f].pid \notin st6.principals THEN Abort(st6) ELSE st7

\* Master::removeFramework(Slave*, Framework*)
removeFrameworkOnSlave(st, s, f) ==
  LET st1 == ForEach(LAMBDA a, t :
                       send(removeTask(
                              updateTask(a, s, f, t, "LOST", "NONE", NoId),
                              s, f, t),
                            Msg("StatusUpdate", a.fw[f].pid, f, s, t, "LOST")),
                     st, TasksOf(st, s, f))
  IN IF f \in st.sexecs[s] THEN removeExecutor(st1, s, f) ELSE st1

\* registerFramework / reregisterFramework up to the call of validate().
registerFramework(st, from, cp) ==
  [st EXCEPT !.validating = @ \cup
     {[kind |-> "register", from |-> from, id |-> NoId, failover |-> FALSE,
       checkpoint |-> cp]}]

reregisterFramework(st, from, f, failover, cp) ==
  IF \E i \in 1..Len(st.completed) : st.completed[i] = f
  THEN send(st, Msg("FrameworkError", from, f, NoId, NoId, "NONE"))
  ELSE [st EXCEPT !.validating = @ \cup
          {[kind |-> "reregister", from |-> from, id |-> f,
            failover |-> failover, checkpoint |-> cp]}]

_registerFramework(st0, v, validationError) ==
  LET st == [st0 EXCEPT !.validating = @ \ {v}]
      f == st.nextFrameworkId
  IN IF validationError
     THEN send(st, Msg("FrameworkError", v.from, NoId, NoId, NoId, "NONE"))
     ELSE IF \E g \in FrameworkIDs : st.fw[g].pid = v.from
     THEN LET g == CHOOSE g \in FrameworkIDs : st.fw[g].pid = v.from
          IN send(st, Msg("FrameworkRegistered", v.from, g, NoId, NoId, "NONE"))
     ELSE send(addFramework([st EXCEPT !.nextFrameworkId = @ + 1],
                            f, v.from, v.checkpoint),
               Msg("FrameworkRegistered", v.from, f, NoId, NoId, "NONE"))

_reregisterFramework(st0, v, validationError) ==
  LET st == [st0 EXCEPT !.validating = @ \ {v}]
      f == v.id
      from == v.from
      stamped == [st EXCEPT !.fw[f].reregisteredTime = Now(st, f)]
      reconnect ==
        LET st1 == ForEach(LAMBDA a, o : recoverOffer(a, o, TRUE), stamped,
                           st.foffers[f])
        IN send([st1 EXCEPT !.fw[f].connected = TRUE, !.fw[f].active = TRUE],
                Msg("FrameworkReregistered", from, f, NoId, NoId, "NONE"))
      \* The new Framework takes the tasks and executors the registered
      \* slaves hold for it.
      adopt ==
        ForEach(LAMBDA a, s :
                  LET a1 == ForEach(LAMBDA b, t :
                                      IF b.ftasks[f][t] # NoId THEN Abort(b)
                                      ELSE [b EXCEPT !.ftasks[f][t] = s],
                                    a, TasksOf(st, s, f))
                  IN IF f \in st.sexecs[s]
                     THEN [a1 EXCEPT !.fexecs[f] = @ \cup {s}] ELSE a1,
                st, RegisteredSlaves(st))
      created == send(addFramework(adopt, f, from, v.checkpoint),
                      Msg("FrameworkRegistered", from, f, NoId, NoId, "NONE"))
      update(a) == ForEach(LAMBDA b, s :
                             send(b, Msg("UpdateFramework", b.sl[s].pid, f, s,
                                         NoId, "NONE")),
                           a, RegisteredSlaves(a))
  IN IF validationError
     THEN send(st, Msg("FrameworkError", from, f, NoId, NoId, "NONE"))
     ELSE IF getFramework(st, f)
     THEN IF v.failover THEN update(failoverFramework(stamped, f, from))
          ELSE IF from # st.fw[f].pid
          THEN send(stamped, Msg("FrameworkError", from, f, NoId, NoId, "NONE"))
          ELSE reconnect
     ELSE update(created)

unregisterFramework(st, from, f) ==
  IF getFramework(st, f) /\ st.fw[f].pid = from THEN removeFramework(st, f)
  ELSE st

deactivateFrameworkMessage(st, from, f) ==
  IF getFramework(st, f) /\ st.fw[f].pid = from THEN deactivateFramework(st, f)
  ELSE st

frameworkFailoverTimeout(st0, f, reregisteredTime) ==
  LET st == [st0 EXCEPT !.timers = @ \ {<<f, reregisteredTime>>}]
  IN IF getFramework(st, f) /\ ~st.fw[f].connected
        /\ st.fw[f].reregisteredTime = reregisteredTime
     THEN removeFramework(st, f) ELSE st

\* ------------------------------------------------------------------
\* The registrar: operations are applied in the order of the calls.
\* ------------------------------------------------------------------
RegOp(op, cb, id, pid, cp, version, tasks, execs) ==
  [op |-> op, cb |-> cb, id |-> id, pid |-> pid, checkpoint |-> cp,
   version |-> version, tasks |-> tasks, execs |-> execs]
applyOp(st, r) == [st EXCEPT !.regQueue = Append(@, r)]

\* Operation::perform of AdmitSlave, ReadmitSlave and RemoveSlave: the new
\* registry and "true" (mutation), "false" (no mutation) or "error".
\* An admission that never looks whether the id is admitted already.
AdmitSlaveAgain(reg, id, isStrict) ==
  [registry |-> reg \cup {id}, result |-> "true"]
AdmitSlave(reg, id, isStrict) ==
  IF id \in reg
  THEN [registry |-> reg, result |-> IF isStrict THEN "error" ELSE "false"]
  ELSE [registry |-> reg \cup {id}, result |-> "true"]
\* A readmission that answers true whether or not it changed the registry.
ReadmitSlaveAlways(reg, id, isStrict) ==
  [registry |-> reg \cup {id}, result |-> "true"]
ReadmitSlave(reg, id, isStrict) ==
  IF id \in reg THEN [registry |-> reg, result |-> "false"]
  ELSE IF isStrict THEN [registry |-> reg, result |-> "error"]
  ELSE [registry |-> reg \cup {id}, result |-> "true"]
RemoveSlave(reg, id, isStrict) ==
  IF id \in reg THEN [registry |-> reg \ {id}, result |-> "true"]
  ELSE [registry |-> reg, result |-> IF isStrict THEN "error" ELSE "false"]

\* Registrar::apply: the future fails on an error and otherwise carries
\* whether the registry was mutated.
apply(reg, r, isStrict) ==
  IF r.op = "admit" THEN AdmitSlave(reg, r.id, isStrict)
  ELSE IF r.op = "readmit" THEN ReadmitSlave(reg, r.id, isStrict)
  ELSE RemoveSlave(reg, r.id, isStrict)

\* Cache<SlaveID, Nothing>: least recently used entries leave first.
CacheHas(c, id) == \E i \in 1..Len(c) : c[i] = id
CacheErase(c, id) == SelectSeq(c, LAMBDA x : x # id)
CachePut(c, id) ==
  IF CacheHas(c, id) THEN Append(CacheErase(c, id), id)
  ELSE IF Len(c) < MaxRemoved THEN Append(c, id)
  ELSE Append(Tail(c), id)
\* slaves.removed.get(id) marks the entry as used.
removedGet(st, id) ==
  IF CacheHas(st.sremoved, id)
  THEN [st EXCEPT !.sremoved = Append(CacheErase(@, id), id)] ELSE st

\* ------------------------------------------------------------------
\* Slaves.
\* ------------------------------------------------------------------
\* A Task the slave reports when it re-registers.
ReportedTask(state) ==
  [state |-> state, sus |-> "NONE", uuid |-> NoId, res |-> 1,
   charged |-> ~isTerminalState(state), recov |-> 0]

\* A removal that notifies the frameworks of the lost slave before the
\* registrar has removed it.
removeSlaveAtOnce(st, s) ==
  LET keys == {x \in FrameworkIDs \X TaskIDs : hasTask(st, s, x[1], x[2])}
      st1 == [st EXCEPT !.alloc[s] = NoId]
      st2 == ForEach(LAMBDA a, x :
                       removeTask(updateTask(a, s, x[1], x[2], "LOST", "NONE",
                                             NoId),
                                  s, x[1], x[2]),
                     st1, keys)
      st3 == ForEach(LAMBDA a, f : removeExecutor(a, s, f), st2, st.sexecs[s])
      st4 == ForEach(LAMBDA a, o : recoverOffer(a, o, TRUE), st3,
                     st.soffers[s])
      st5 == [st4 EXCEPT !.sremoving = @ \cup {s},
                         !.sl[s] = NoSlave,
                         !.observer[s] = [NoObserver EXCEPT
                                            !.shutdown = st.observer[s].shutdown],
                         !.sremoved = CachePut(@, s)]
      st6 == ForEach(LAMBDA a, f :
                       send(a, Msg("LostSlave", a.fw[f].pid, f, s, NoId,
                                   "NONE")),
                     st5, {f \in FrameworkIDs : getFramework(st, f)})
  IN applyOp(st6, RegOp("remove", "_removeSlave", s, st.sl[s].pid, FALSE,
                        FALSE, {<<x[1], x[2], "LOST">> : x \in keys}, {}))

\* new Slave(info, pid, version, now, executorInfos, tasks) and addSlave.
\* tasks is a set of <<frameworkId, taskId, state>>, execs of framework ids.
addSlave(st, s, pid, cp, version, tasks, execs) ==
  LET st1 == [st EXCEPT
                !.sremoved = CacheErase(@, s),
                !.sl[s] = [pid |-> pid, connected |-> TRUE, active |-> TRUE,
                           checkpoint |-> cp, version |-> version],
                !.stasks[s] = [f \in FrameworkIDs |-> [t \in TaskIDs |->
                   IF \E x \in tasks : x[1] = f /\ x[2] = t
                   THEN ReportedTask((CHOOSE x \in tasks :
                                        x[1] = f /\ x[2] = t)[3])
                   ELSE NoTask]],
                !.sexecs[s] = execs,
                !.observer[s] = [NoObserver EXCEPT !.at = "spawned",
                                                   !.shutdown = @ \/ st.observer[s].shutdown]]
      st2 == [st1 EXCEPT !.sused[s] = [f \in FrameworkIDs |->
                (IF f \in execs THEN ExecRes ELSE 0)
                + Cardinality({t \in TaskIDs :
                     /\ hasTask(st1, s, f, t)
                     /\ ~isTerminalState(st1.stasks[s][f][t].state)})]]
      st3 == ForEach(LAMBDA a, f :
                       IF ~getFramework(a, f) THEN a
                       ELSE IF s \in a.fexecs[f] THEN Abort(a)
                       ELSE [a EXCEPT !.fexecs[f] = @ \cup {s}],
                     st2, execs)
      st4 == ForEach(LAMBDA a, x :
                       IF ~getFramework(a, x[1]) THEN a
                       ELSE IF a.ftasks[x[1]][x[2]] # NoId THEN Abort(a)
                       ELSE [a EXCEPT !.ftasks[x[1]][x[2]] = s],
                     st3, tasks)
  IN [st4 EXCEPT !.alloc[s] = UsedOf(st2, s)]

removeSlave(st, s) ==
  LET keys == {x \in FrameworkIDs \X TaskIDs : hasTask(st, s, x[1], x[2])}
      st1 == [st EXCEPT !.alloc[s] = NoId]
      st2 == ForEach(LAMBDA a, x :
                       removeTask(updateTask(a, s, x[1], x[2], "LOST", "NONE",
                                             NoId),
                                  s, x[1], x[2]),
                     st1, keys)
      st3 == ForEach(LAMBDA a, f : removeExecutor(a, s, f), st2, st.sexecs[s])
      st4 == ForEach(LAMBDA a, o : recoverOffer(a, o, TRUE), st3,
                     st.soffers[s])
      st5 == [st4 EXCEPT !.sremoving = @ \cup {s},
                         !.sl[s] = NoSlave,
                         !.observer[s] = [NoObserver EXCEPT
                                            !.shutdown = st.observer[s].shutdown],
                         !.sremoved = CachePut(@, s)]
  IN applyOp(st5, RegOp("remove", "_removeSlave", s, st.sl[s].pid, FALSE,
                        FALSE, {<<x[1], x[2], "LOST">> : x \in keys}, {}))

_removeSlave(st, r, result) ==
  LET st1 == [st EXCEPT !.sremoving = @ \ {r.id}]
      st2 == ForEach(LAMBDA a, x :
                       IF getFramework(a, x[1])
                       THEN send(a, Msg("StatusUpdate", a.fw[x[1]].pid, x[1],
                                        r.id, x[2], "LOST"))
                       ELSE a,
                     st1, r.tasks)
  IN IF result # "true" THEN Abort(st1)
     ELSE ForEach(LAMBDA a, f :
                    send(a, Msg("LostSlave", a.fw[f].pid, f, r.id, NoId,
                                "NONE")),
                  st2, {f \in FrameworkIDs : getFramework(st, f)})

deactivateSlave(st, s) ==
  ForEach(LAMBDA a, o : recoverOffer(a, o, TRUE),
          [st EXCEPT !.sl[s].active = FALSE], st.soffers[s])

disconnectSlave(st, s) ==
  deactivateSlave([st EXCEPT !.sl[s].connected = FALSE], s)

registerSlave(st, from, cp, version) ==
  LET same == {s \in SlaveIDs : st.sl[s].pid = from}
      known == CHOOSE s \in same : TRUE
      st1 == IF same # {} THEN removeSlave(st, known) ELSE st
      id == st.nextSlaveId
  IN IF same # {} /\ st.sl[known].connected
     THEN IF ~st.sl[known].active THEN Abort(st)
          ELSE send(st, Msg("SlaveRegistered", from, NoId, known, NoId, "NONE"))
     ELSE IF from \in st1.sregistering THEN st1
     ELSE applyOp([st1 EXCEPT !.sregistering = @ \cup {from},
                              !.nextSlaveId = @ + 1],
                  RegOp("admit", "_registerSlave", id, from, cp, version,
                        {}, {}))

_registerSlave(st, r, admit) ==
  LET st1 == [st EXCEPT !.sregistering = @ \ {r.pid}]
  IN IF admit = "error" THEN Abort(st1)
     ELSE IF admit = "false"
     THEN send([st1 EXCEPT !.sremoved = CachePut(@, r.id)],
               Msg("Shutdown", r.pid, NoId, r.id, NoId, "NONE"))
     ELSE send(addSlave(st1, r.id, r.pid, r.checkpoint, r.version, {}, {}),
               Msg("SlaveRegistered", r.pid, NoId, r.id, NoId, "NONE"))

\* A reconcile that treats every worker as one that told no version.
reconcileLegacy(st, s, reported, execs) ==
  LET keys == {x \in FrameworkIDs \X TaskIDs : hasTask(st, s, x[1], x[2])}
      missing == {x \in keys :
                    ~\E y \in reported : y[1] = x[1] /\ y[2] = x[2]}
      st1 == ForEach(LAMBDA a, x :
                LET lost == removeTask(
                              updateTask(a, s, x[1], x[2], "LOST", "NONE",
                                         NoId),
                              s, x[1], x[2])
                IN IF getFramework(a, x[1])
                   THEN send(lost, Msg("StatusUpdate", a.fw[x[1]].pid, x[1], s,
                                       x[2], "LOST"))
                   ELSE lost,
                st, missing)
  IN send(st1, Msg("SlaveReregistered", st.sl[s].pid, NoId, s, NoId, "NONE"))

\* reported: the <<frameworkId, taskId, state>> the slave says it runs;
\* execs: the frameworks whose executor it says it runs.
reconcile(st, s, reported, execs) ==
  LET keys == {x \in FrameworkIDs \X TaskIDs : hasTask(st, s, x[1], x[2])}
      missing == {x \in keys :
                    ~\E y \in reported : y[1] = x[1] /\ y[2] = x[2]}
      st1 == ForEach(LAMBDA a, x :
                LET task == a.stasks[s][x[1]][x[2]]
                    lost == removeTask(
                              updateTask(a, s, x[1], x[2], "LOST", "NONE",
                                         NoId),
                              s, x[1], x[2])
                IN IF a.sl[s].version
                   THEN send(a, Msg("ReconcileTasks", a.sl[s].pid, x[1], s,
                                    x[2],
                                    IF task.sus # "NONE" THEN task.sus
                                    ELSE task.state))
                   ELSE IF getFramework(a, x[1])
                   THEN send(lost, Msg("StatusUpdate", a.fw[x[1]].pid, x[1], s,
                                       x[2], "LOST"))
                   ELSE lost,
                st, missing)
      st2 == send(st1, Msg("SlaveReregistered", st.sl[s].pid, NoId, s, NoId,
                           "NONE"))
      st3 == ForEach(LAMBDA a, f : removeExecutor(a, s, f), st2,
                     st.sexecs[s] \ execs)
  IN ForEach(LAMBDA a, f :
               IF CacheHas(a.completed, f)
               THEN send(a, Msg("ShutdownFramework", a.sl[s].pid, f, s, NoId,
                                "NONE"))
               ELSE a,
             st3, {y[1] : y \in reported})

__reregisterSlave(st, s, reported) ==
  ForEach(LAMBDA a, f :
            IF getFramework(a, f)
            THEN send(a, Msg("UpdateFramework", a.sl[s].pid, f, s, NoId,
                             "NONE"))
            ELSE a,
          st, {y[1] : y \in reported})

\* A reregisterSlave that does not look at the removed slaves.
reregisterSlaveUnchecked(st0, from, s, cp, version, reported, execs) ==
  LET st1 == reconcile([st0 EXCEPT !.sl[s].pid = from], s, reported, execs)
      st2 == [st1 EXCEPT !.sl[s].connected = TRUE, !.sl[s].active = TRUE]
      st3 == [st0 EXCEPT !.srecovered = @ \ {s}]
  IN IF getSlave(st0, s) THEN __reregisterSlave(st2, s, reported)
     ELSE IF s \in st3.sreregistering THEN st3
     ELSE applyOp([st3 EXCEPT !.sreregistering = @ \cup {s}],
                  RegOp("readmit", "_reregisterSlave", s, from, cp, version,
                        reported, execs))

reregisterSlave(st0, from, s, cp, version, reported, execs) ==
  LET st == removedGet(st0, s)
      st1 == reconcile([st EXCEPT !.sl[s].pid = from], s, reported, execs)
      st2 == [st1 EXCEPT !.sl[s].connected = TRUE, !.sl[s].active = TRUE]
      st3 == [st EXCEPT !.srecovered = @ \ {s}]
  IN IF CacheHas(st.sremoved, s)
     THEN send(st, Msg("Shutdown", from, NoId, s, NoId, "NONE"))
     ELSE IF getSlave(st, s) THEN __reregisterSlave(st2, s, reported)
     ELSE IF s \in st3.sreregistering THEN st3
     ELSE applyOp([st3 EXCEPT !.sreregistering = @ \cup {s}],
                  RegOp("readmit", "_reregisterSlave", s, from, cp, version,
                        reported, execs))

\* A _reregisterSlave that leaves the id among those re-registering.
_reregisterSlaveKeeping(st, r, readmit) ==
  IF readmit = "error" THEN Abort(st)
  ELSE IF readmit = "false"
  THEN send([st EXCEPT !.sremoved = CachePut(@, r.id)],
            Msg("Shutdown", r.pid, NoId, r.id, NoId, "NONE"))
  ELSE __reregisterSlave(
         send(addSlave(st, r.id, r.pid, r.checkpoint, r.version, r.tasks,
                       r.execs),
              Msg("SlaveReregistered", r.pid, NoId, r.id, NoId, "NONE")),
         r.id, r.tasks)

_reregisterSlave(st, r, readmit) ==
  LET st1 == [st EXCEPT !.sreregistering = @ \ {r.id}]
  IN IF readmit = "error" THEN Abort(st1)
     ELSE IF readmit = "false"
     THEN send([st1 EXCEPT !.sremoved = CachePut(@, r.id)],
               Msg("Shutdown", r.pid, NoId, r.id, NoId, "NONE"))
     ELSE __reregisterSlave(
            send(addSlave(st1, r.id, r.pid, r.checkpoint, r.version, r.tasks,
                          r.execs),
                 Msg("SlaveReregistered", r.pid, NoId, r.id, NoId, "NONE")),
            r.id, r.tasks)

unregisterSlave(st, from, s) ==
  IF getSlave(st, s) /\ st.sl[s].pid = from THEN removeSlave(st, s) ELSE st

\* A shutdown that forgets at once that the slave was removed.
shutdownSlaveForgetting(st, s) ==
  IF ~getSlave(st, s) THEN st
  ELSE [removeSlave(send(st, Msg("Shutdown", st.sl[s].pid, NoId, s, NoId,
                                 "NONE")), s)
          EXCEPT !.sremoved = CacheErase(@, s)]
shutdownSlave(st, s) ==
  IF ~getSlave(st, s) THEN st
  ELSE removeSlave(send(st, Msg("Shutdown", st.sl[s].pid, NoId, s, NoId,
                                "NONE")), s)

\* ------------------------------------------------------------------
\* SlaveObserver: the health check of one slave.
\* ------------------------------------------------------------------
\* SlaveObserver::ping: the PING carries whether the master holds the slave
\* connected, and the timeout is set.
ping(st, s) ==
  send([st EXCEPT !.observer[s].pinged = TRUE,
                  !.observer[s].at = "waiting",
                  !.observer[s].sent = @ + 1],
       Msg("PING", st.sl[s].pid, NoId, s, NoId,
           IF st.sl[s].connected THEN "connected" ELSE "disconnected"))

pong(st, s) ==
  [st EXCEPT !.observer[s].timeouts = 0, !.observer[s].pinged = FALSE]

\* SlaveObserver::shutdown: no further ping, hence no further timeout.
shutdown(st, s) ==
  [st EXCEPT !.observer[s].at = "stopped", !.observer[s].shutdown = TRUE]

\* A timeout that gives up at the first ping without a pong.
timeoutAtOnce(st, s) ==
  IF st.observer[s].pinged THEN shutdown(st, s) ELSE ping(st, s)

\* SlaveObserver::timeout.
timeout(st, s) ==
  IF st.observer[s].pinged
  THEN LET st1 == [st EXCEPT !.observer[s].timeouts = @ + 1]
       IN IF st1.observer[s].timeouts >= MaxSlavePingTimeouts
          THEN shutdown(st1, s)
          ELSE ping(st1, s)
  ELSE ping(st, s)

\* The slaves of the recovered registry that did not re-register in time.
recoveredSlavesTimeout(st) ==
  ForEach(LAMBDA a, s :
            IF a.strict
            THEN applyOp([a EXCEPT !.srecovered = @ \ {s},
                                   !.sremoving = @ \cup {s}],
                         RegOp("remove", "_removeSlave", s, NoPid, FALSE,
                               FALSE, {}, {}))
            ELSE applyOp([a EXCEPT !.srecovered = @ \ {s}],
                         RegOp("remove", "fail", s, NoPid, FALSE, FALSE, {},
                               {})),
          st, st.srecovered)

exitedFramework(st, f) ==
  LET st1 == disconnectFramework(st, f)
  IN [st1 EXCEPT !.timers = @ \cup {<<f, st.fw[f].reregisteredTime>>}]

\* An exitedSlave that leaves every framework on the disconnected slave.
exitedSlaveKeepingAll(st, s) ==
  IF ~st.sl[s].checkpoint THEN removeSlave(st, s)
  ELSE IF st.sl[s].connected THEN disconnectSlave(st, s)
  ELSE st


exitedSlave(st, s) ==
  IF ~st.sl[s].checkpoint THEN removeSlave(st, s)
  ELSE IF st.sl[s].connected
  THEN ForEach(LAMBDA a, f :
                 IF getFramework(a, f) /\ ~a.fw[f].checkpoint
                 THEN removeFrameworkOnSlave(a, s, f) ELSE a,
               disconnectSlave(st, s),
               {f \in FrameworkIDs :
                  TasksOf(st, s, f) # {} \/ f \in st.sexecs[s]})
  ELSE st

\* Master::exited(pid); which framework with that pid the loop meets first
\* is the choice of f.
exited(st, pid, f) ==
  IF \E g \in FrameworkIDs : st.fw[g].pid = pid THEN exitedFramework(st, f)
  ELSE ForEach(LAMBDA a, s : IF a.sl[s].pid = pid THEN exitedSlave(a, s) ELSE a,
               st, SlaveIDs)

\* ------------------------------------------------------------------
\* Offers and task launches.
\* ------------------------------------------------------------------
\* An offer that is made whether or not the framework and the slave are
\* active.
offerInactive(st, f, s, r) ==
  LET o == st.nextOfferId
  IN IF ~getFramework(st, f) \/ ~getSlave(st, s)
     THEN recoverResources(st, s, r)
     ELSE send([st EXCEPT !.nextOfferId = @ + 1,
                          !.offers[o] = [fid |-> f, sid |-> s, res |-> r],
                          !.foffers[f] = @ \cup {o},
                          !.soffers[s] = @ \cup {o}],
               Msg("ResourceOffers", st.fw[f].pid, f, s, o, "NONE"))

\* Master::offer for one slave of the map; the allocator has already counted
\* the resources as allocated.
offer(st, f, s, r) ==
  LET o == st.nextOfferId
  IN IF ~getFramework(st, f) \/ ~st.fw[f].active
     THEN recoverResources(st, s, r)
     ELSE IF ~getSlave(st, s) THEN recoverResources(st, s, r)
     ELSE IF ~(st.sl[s].checkpoint \/ ~st.fw[f].checkpoint) THEN Abort(st)
     ELSE IF ~st.sl[s].active THEN recoverResources(st, s, r)
     ELSE send([st EXCEPT !.nextOfferId = @ + 1,
                          !.offers[o] = [fid |-> f, sid |-> s, res |-> r],
                          !.foffers[f] = @ \cup {o},
                          !.soffers[s] = @ \cup {o}],
               Msg("ResourceOffers", st.fw[f].pid, f, s, o, "NONE"))

offerTimeout(st, o) ==
  IF getOffer(st, o) THEN recoverOffer(st, o, TRUE) ELSE st

\* The four offer validators, run on offerIds[1..n] in order; the result is
\* the first error ("" when there is none).  A failed CHECK of SlaveValidator
\* is the error "CHECK".
OfferError(st, f, offerIds) ==
  LET RECURSIVE check(_, _, _)
      check(i, slaveId, seen) ==
        IF i > Len(offerIds) THEN ""
        ELSE LET o == offerIds[i]
                 off == st.offers[o]
             IN IF ~getOffer(st, o) THEN "invalid offer"
                ELSE IF off.fid # f THEN "invalid framework"
                ELSE IF ~getSlave(st, off.sid) \/ ~st.sl[off.sid].connected
                THEN "CHECK"
                ELSE IF slaveId # NoId /\ off.sid # slaveId
                THEN "several slaves"
                ELSE IF o \in seen THEN "duplicate offer"
                ELSE check(i + 1, off.sid, seen \cup {o})
  IN IF Len(offerIds) = 0 THEN "no offers" ELSE check(1, NoId, {})

Range(q) == {q[i] : i \in 1..Len(q)}

Results(n, r) == [i \in 1..n |-> r]

\* tasks is a sequence of TaskInfo [id, res, exec].
\* Launches that wait at the same time are told apart by the order in
\* which they arrived.
LaunchSeq(st) ==
  IF st.launching = {} THEN 1
  ELSE 1 + (CHOOSE n \in {l.seq : l \in st.launching} :
              \A l \in st.launching : l.seq <= n)

launchTasks(st, from, f, tasks, offerIds) ==
  LET error == OfferError(st, f, offerIds)
      held == {o \in Range(offerIds) : getOffer(st, o)}
      \* Without an error every offer is held and names the same slave.
      slaveId == st.offers[offerIds[1]].sid
      offered == LET RECURSIVE sum(_)
                     sum(O) == IF O = {} THEN 0
                               ELSE LET o == CHOOSE x \in O : TRUE
                                    IN st.offers[o].res + sum(O \ {o})
                 IN sum(held)
      st1 == ForEach(LAMBDA a, o :
                       IF error # "" THEN recoverOffer(a, o, FALSE)
                       ELSE removeOffer(a, o, FALSE),
                     st, held)
      st2 == ForEach(LAMBDA a, i :
                       send(a, Msg("StatusUpdate", st.fw[f].pid, f, NoId,
                                   tasks[i].id, "LOST")),
                     st1, 1..Len(tasks))
  IN IF ~getFramework(st, f) \/ st.fw[f].pid # from THEN st
     ELSE IF error = "CHECK" THEN Abort(st)
     ELSE IF error # ""
     THEN [st2 EXCEPT !.outcome =
             [f |-> f, stayed |-> TRUE, killed |-> {},
              ids |-> [i \in 1..Len(tasks) |-> tasks[i].id],
              results |-> Results(Len(tasks), "TASK_LOST")]]
     ELSE [st1 EXCEPT
             !.fpending[f] = @ \cup {tasks[i].id : i \in 1..Len(tasks)},
             !.launching = @ \cup
                {[f |-> f, s |-> slaveId, tasks |-> tasks,
                  offered |-> offered, stayed |-> TRUE, killed |-> {},
                  seq |-> LaunchSeq(st)]}]

\* addTask: the resources consumed, the executor's included when it is new.
addTask(st, f, s, task) ==
  LET newExec == task.exec /\ f \notin st.sexecs[s]
      st1 == IF newExec
             THEN [st EXCEPT !.sexecs[s] = @ \cup {f},
                             !.fexecs[f] = @ \cup {s},
                             !.sused[s][f] = @ + ExecRes]
             ELSE st
      st2 == [st1 EXCEPT
                !.stasks[s][f][task.id] =
                   [state |-> "STAGING", sus |-> "NONE", uuid |-> NoId,
                    res |-> task.res, charged |-> TRUE, recov |-> 0],
                !.sused[s][f] = @ + task.res,
                !.ftasks[f][task.id] = s]
  IN IF ~st.sl[s].connected \/ (newExec /\ s \in st.fexecs[f])
        \/ hasTask(st, s, f, task.id) \/ st.ftasks[f][task.id] # NoId
     THEN Abort(st) ELSE st2

\* A validation that accepts every task.
validateNothing(st, f, s, task, offeredResources, usedResources) == FALSE

\* validateTask: whether a validator returns an error.
validateTask(st, f, s, task, offeredResources, usedResources) ==
  \/ st.ftasks[f][task.id] # NoId
  \/ st.fw[f].checkpoint /\ ~st.sl[s].checkpoint
  \/ task.res = 0
  \/ task.res
       + (IF task.exec /\ f \notin st.sexecs[s] THEN ExecRes ELSE 0)
       + usedResources > offeredResources

\* A launch that is dropped when its authorizations arrive, its resources
\* handed back to nobody.
_launchTasksLeaking(st0, l, authorizations) ==
  [st0 EXCEPT !.launching = @ \ {l},
              !.fpending[l.f] = @ \ {l.tasks[i].id : i \in 1..Len(l.tasks)},
              !.outcome = [f |-> l.f, stayed |-> l.stayed, killed |-> l.killed,
                           ids |-> [i \in 1..Len(l.tasks) |-> l.tasks[i].id],
                           results |-> Results(Len(l.tasks), "TASK_ERROR")]]

\* authorizations[i] is FALSE when the i-th future failed or denied.
_launchTasks(st0, l, authorizations) ==
  LET st == [st0 EXCEPT !.launching = @ \ {l}]
      f == l.f
      s == l.s
      n == Len(l.tasks)
      RECURSIVE loop(_, _, _, _)
      loop(a, i, used, res) ==
        IF i > n
        THEN [(IF l.offered > used
               THEN recoverResources(a, s, l.offered - used) ELSE a)
                EXCEPT !.outcome.results = res]
        ELSE LET task == l.tasks[i]
                 pending == task.id \in a.fpending[f]
                 a1 == [a EXCEPT !.fpending[f] = @ \ {task.id}]
                 err == send(a1, Msg("StatusUpdate", a.fw[f].pid, f, s,
                                     task.id, "ERROR"))
                 added == addTask(a1, f, s, task)
                 run == send(added, Msg("RunTask", a.sl[s].pid, f, s, task.id,
                                        "NONE"))
                 cost == task.res + (IF task.exec /\ f \notin a.sexecs[s]
                                     THEN ExecRes ELSE 0)
             IN IF ~authorizations[i]
                THEN loop(err, i + 1, used, Append(res, "TASK_ERROR"))
                ELSE IF validateTask(a1, f, s, task, l.offered, used)
                THEN loop(err, i + 1, used, Append(res, "TASK_ERROR"))
                ELSE IF pending
                THEN loop(run, i + 1, used + cost, Append(res, "RunTask"))
                ELSE loop(a1, i + 1, used, Append(res, "none"))
      lost == ForEach(LAMBDA a, i :
                        send(a, Msg("StatusUpdate", st.fw[f].pid, f, s,
                                    l.tasks[i].id, "LOST")),
                      st, 1..n)
      log(a, r) == [a EXCEPT !.outcome =
                      [f |-> f, stayed |-> l.stayed, killed |-> l.killed,
                       ids |-> [i \in 1..n |-> l.tasks[i].id], results |-> r]]
  IN IF ~getFramework(st, f)
     THEN log(recoverResources(st, s, l.offered), Results(n, "none"))
     ELSE IF ~getSlave(st, s) \/ ~st.sl[s].connected
     THEN log(recoverResources(lost, s, l.offered), Results(n, "TASK_LOST"))
     ELSE loop(log(st, <<>>), 1, 0, <<>>)

\* ------------------------------------------------------------------
\* Status updates, acknowledgements, kills and reconciliation.
\* ------------------------------------------------------------------
\* pid is the address to acknowledge, NoPid when the update says none.
\* A statusUpdate that updates the task without looking whether it is there.
statusUpdateUnknown(st0, from, pid, s, f, t, status, latest, uuid) ==
  LET st == removedGet(st0, s)
      st1 == send(st, Msg("StatusUpdate", st.fw[f].pid, f, s, t, status))
      st2 == updateTask(st1, s, f, t, status, latest, uuid)
  IN IF CacheHas(st.sremoved, s)
     THEN send(st, Msg("Shutdown", pid, NoId, s, NoId, "NONE"))
     ELSE IF ~getSlave(st, s) \/ ~getFramework(st, f) THEN st
     ELSE IF isTerminalState(st2.stasks[s][f][t].state) /\ pid = NoPid
     THEN removeTask(st2, s, f, t)
     ELSE st2

statusUpdate(st0, from, pid, s, f, t, status, latest, uuid) ==
  LET st == removedGet(st0, s)
      st1 == send(st, Msg("StatusUpdate", st.fw[f].pid, f, s, t, status))
      st2 == updateTask(st1, s, f, t, status, latest, uuid)
  IN IF CacheHas(st.sremoved, s)
     THEN send(st, Msg("Shutdown", pid, NoId, s, NoId, "NONE"))
     ELSE IF ~getSlave(st, s) \/ ~getFramework(st, f) THEN st
     ELSE IF ~hasTask(st, s, f, t) THEN st1
     ELSE IF isTerminalState(st2.stasks[s][f][t].state) /\ pid = NoPid
     THEN removeTask(st2, s, f, t)
     ELSE st2

\* A statusUpdateAcknowledgement that removes the task whose latest state is
\* terminal.
statusUpdateAcknowledgementOfLatest(st, from, s, f, t, uuid) ==
  LET task == st.stasks[s][f][t]
      ack(a) == send(a, Msg("StatusUpdateAcknowledgement", st.sl[s].pid, f, s,
                            t, ToString(uuid)))
  IN IF ~getFramework(st, f) \/ st.fw[f].pid # from THEN st
     ELSE IF ~getSlave(st, s) \/ ~st.sl[s].connected THEN st
     ELSE IF ~hasTask(st, s, f, t) THEN ack(st)
     ELSE IF task.sus = "NONE" THEN st
     ELSE IF isTerminalState(task.state) /\ task.uuid = uuid
     THEN ack(removeTask(st, s, f, t))
     ELSE ack(st)

\* The message forwarded to the slave carries the uuid (in its last field).
statusUpdateAcknowledgement(st, from, s, f, t, uuid) ==
  LET task == st.stasks[s][f][t]
      ack(a) == send(a, Msg("StatusUpdateAcknowledgement", st.sl[s].pid, f, s,
                            t, ToString(uuid)))
  IN IF ~getFramework(st, f) \/ st.fw[f].pid # from THEN st
     ELSE IF ~getSlave(st, s) \/ ~st.sl[s].connected THEN st
     ELSE IF ~hasTask(st, s, f, t) THEN ack(st)
     ELSE IF task.sus = "NONE" THEN st
     ELSE IF isTerminalState(task.sus) /\ task.uuid = uuid
     THEN ack(removeTask(st, s, f, t))
     ELSE ack(st)

\* An explicit reconciliation that answers LOST for every task it does not
\* know, whatever the slave.
_reconcileTasksLost(st, f, statuses) ==
  LET to == st.fw[f].pid
      stateOf(t) == LET task == st.stasks[st.ftasks[f][t]][f][t]
                    IN IF task.sus # "NONE" THEN task.sus ELSE task.state
  IN ForEach(LAMBDA a, x :
               IF x.t \in st.fpending[f]
               THEN send(a, Msg("StatusUpdate", to, f, NoId, x.t, "STAGING"))
               ELSE IF st.ftasks[f][x.t] # NoId
               THEN send(a, Msg("StatusUpdate", to, f, st.ftasks[f][x.t],
                                x.t, stateOf(x.t)))
               ELSE send(a, Msg("StatusUpdate", to, f, x.s, x.t, "LOST")),
             st, statuses)

\* A reconciliation that reports the latest state of a task it knows.
_reconcileTasksOfLatest(st, f, statuses) ==
  LET to == st.fw[f].pid
      stateOf(t) == LET task == st.stasks[st.ftasks[f][t]][f][t]
                    IN task.state
      transitioning(s) ==
        IF s # NoId
        THEN s \in st.srecovered \/ s \in st.sreregistering
             \/ s \in st.sremoving
        ELSE st.srecovered # {} \/ st.sreregistering # {} \/ st.sremoving # {}
      implicit ==
        ForEach(LAMBDA a, t :
                  send(a, Msg("StatusUpdate", to, f, st.ftasks[f][t], t,
                              stateOf(t))),
                ForEach(LAMBDA a, t :
                          send(a, Msg("StatusUpdate", to, f, NoId, t,
                                      "STAGING")),
                        st, st.fpending[f]),
                {t \in TaskIDs : st.ftasks[f][t] # NoId})
      explicit ==
        ForEach(LAMBDA a, x :
                  IF x.t \in st.fpending[f]
                  THEN send(a, Msg("StatusUpdate", to, f, NoId, x.t, "STAGING"))
                  ELSE IF st.ftasks[f][x.t] # NoId
                  THEN send(a, Msg("StatusUpdate", to, f, st.ftasks[f][x.t],
                                   x.t, stateOf(x.t)))
                  ELSE IF x.s # NoId /\ getSlave(st, x.s)
                  THEN send(a, Msg("StatusUpdate", to, f, x.s, x.t, "LOST"))
                  ELSE IF transitioning(x.s) THEN a
                  ELSE send(a, Msg("StatusUpdate", to, f, x.s, x.t, "LOST")),
                st, statuses)
  IN IF statuses = {} THEN implicit ELSE explicit

\* statuses is a set of [t, s]; s = NoId when the status names no slave.
_reconcileTasks(st, f, statuses) ==
  LET to == st.fw[f].pid
      stateOf(t) == LET task == st.stasks[st.ftasks[f][t]][f][t]
                    IN IF task.sus # "NONE" THEN task.sus ELSE task.state
      transitioning(s) ==
        IF s # NoId
        THEN s \in st.srecovered \/ s \in st.sreregistering
             \/ s \in st.sremoving
        ELSE st.srecovered # {} \/ st.sreregistering # {} \/ st.sremoving # {}
      implicit ==
        ForEach(LAMBDA a, t :
                  send(a, Msg("StatusUpdate", to, f, st.ftasks[f][t], t,
                              stateOf(t))),
                ForEach(LAMBDA a, t :
                          send(a, Msg("StatusUpdate", to, f, NoId, t,
                                      "STAGING")),
                        st, st.fpending[f]),
                {t \in TaskIDs : st.ftasks[f][t] # NoId})
      explicit ==
        ForEach(LAMBDA a, x :
                  IF x.t \in st.fpending[f]
                  THEN send(a, Msg("StatusUpdate", to, f, NoId, x.t, "STAGING"))
                  ELSE IF st.ftasks[f][x.t] # NoId
                  THEN send(a, Msg("StatusUpdate", to, f, st.ftasks[f][x.t],
                                   x.t, stateOf(x.t)))
                  ELSE IF x.s # NoId /\ getSlave(st, x.s)
                  THEN send(a, Msg("StatusUpdate", to, f, x.s, x.t, "LOST"))
                  ELSE IF transitioning(x.s) THEN a
                  ELSE send(a, Msg("StatusUpdate", to, f, x.s, x.t, "LOST")),
                st, statuses)
  IN IF statuses = {} THEN implicit ELSE explicit

reconcileTasks(st, from, f, statuses) ==
  IF ~getFramework(st, f) \/ st.fw[f].pid # from THEN st
  ELSE _reconcileTasks(st, f, statuses)

killTask(st, from, f, t) ==
  LET s == st.ftasks[f][t]
  IN IF ~getFramework(st, f) \/ st.fw[f].pid # from THEN st
     ELSE IF t \in st.fpending[f]
     THEN send([st EXCEPT !.fpending[f] = @ \ {t},
                          \* history: the launches of t saw it killed
                          !.launching =
                             {IF l.f = f /\ \E i \in 1..Len(l.tasks) :
                                               l.tasks[i].id = t
                              THEN [l EXCEPT !.killed = @ \cup {t}]
                              ELSE l : l \in @}],
               Msg("StatusUpdate", from, f, NoId, t, "KILLED"))
     ELSE IF s = NoId THEN _reconcileTasks(st, f, {[t |-> t, s |-> NoId]})
     ELSE IF ~getSlave(st, s) THEN Abort(st)
     ELSE IF st.sl[s].connected
     THEN send(st, Msg("KillTask", st.sl[s].pid, f, s, t, "NONE"))
     ELSE st

exitedExecutor(st0, from, s, f) ==
  LET st == removedGet(st0, s)
  IN IF CacheHas(st.sremoved, s)
     THEN send(st, Msg("Shutdown", from, NoId, s, NoId, "NONE"))
     ELSE IF ~getSlave(st, s) \/ f \notin st.sexecs[s] THEN st
     ELSE removeExecutor(st, s, f)

\* ------------------------------------------------------------------
\* Leader election and recovery.
\* ------------------------------------------------------------------
\* A detected that lets a master that lost the leadership run on.
detectedWithoutExit(st, l) ==
  IF l = "failed" THEN Exit(st) ELSE [st EXCEPT !.leader = l]

\* Master::detected; l = "failed" is a failed future.
detected(st, l) ==
  LET wasElected == st.leader = "self"
      st1 == [st EXCEPT !.leader = l]
  IN IF l = "failed" THEN Exit(st)
     ELSE IF wasElected /\ l # "self" THEN Exit(st1)
     ELSE IF l = "self" /\ ~wasElected /\ st.recovered = "none"
     THEN [st1 EXCEPT !.recovered = "pending"]   \* recover()
     ELSE st1

lostCandidacy(st, failed) ==
  IF failed THEN Exit(st)
  ELSE IF st.leader = "self" THEN Exit(st)
  ELSE st

\* Master::_recover, after which the future 'recovered' is ready.
_recover(st) ==
  [st EXCEPT !.srecovered = st.registry, !.recovered = "ready"]

\* ------------------------------------------------------------------
\* The state after construction.
\* ------------------------------------------------------------------
Start(st) ==
  /\ proc = st.proc /\ leader = st.leader /\ recovered = st.recovered
  /\ dropped = st.dropped /\ nextFrameworkId = st.nextFrameworkId
  /\ nextSlaveId = st.nextSlaveId /\ nextOfferId = st.nextOfferId
  /\ fw = st.fw /\ completed = st.completed
  /\ principals = st.principals /\ fpending = st.fpending
  /\ ftasks = st.ftasks /\ fexecs = st.fexecs /\ foffers = st.foffers
  /\ sl = st.sl /\ stasks = st.stasks /\ sexecs = st.sexecs
  /\ soffers = st.soffers /\ sused = st.sused
  /\ srecovered = st.srecovered /\ sregistering = st.sregistering
  /\ sreregistering = st.sreregistering /\ sremoving = st.sremoving
  /\ sremoved = st.sremoved /\ offers = st.offers
  /\ registry = st.registry /\ strict = st.strict
  /\ regQueue = st.regQueue /\ alloc = st.alloc
  /\ validating = st.validating /\ launching = st.launching
  /\ timers = st.timers /\ wid = st.wid /\ limiter = st.limiter
  /\ observer = st.observer /\ futures = st.futures
  /\ detector = st.detector
  /\ out = st.out /\ transitions = st.transitions
  /\ recovLog = st.recovLog /\ outcome = st.outcome
  /\ request = st.request
  /\ lastEvent = st.lastEvent

\* The registry may hold slave 0, which worker w1 believes to be.
Init ==
  \E reg \in SUBSET {0}, isStrict \in BOOLEAN :
    Start(Fresh(reg, isStrict,
                [w \in SlavePids |-> IF w = "w1" THEN 0 ELSE NoId]))

\* ------------------------------------------------------------------
\* Events.
\* ------------------------------------------------------------------
\* A visit that hands every message to its handler.
VisitWithoutDrop(st) == proc = "running" /\ Become(st, "message")

\* Master::visit(const MessageEvent&): the message is dropped and counted
\* unless the master is elected and has recovered; st is the handler's result.
Visit(st) ==
  /\ proc = "running"
  /\ IF ~elected
     THEN /\ dropped < MaxDropped
          /\ Become([M EXCEPT !.dropped = @ + 1], "message")
     ELSE IF recovered # "ready"
     THEN /\ dropped < MaxDropped
          /\ Become([M EXCEPT !.dropped = @ + 1], "message")
     ELSE Become(st, "message")

\* The same for a message of a worker; history: a message that reaches its
\* handler is remembered by its name.
VisitWorker(st, name) ==
  /\ proc = "running"
  /\ IF Serving THEN Become(st, name) ELSE Visit(st)

\* A dispatch, a timer or an ExitedEvent: st is the handler's result.
Run(st) == proc = "running" /\ Become(st, "event")

Detected ==
  \E l \in {"none", "self", "other", "failed"} :
    /\ proc = "running"
    /\ Become(detected(M, l),
              IF l = "failed" THEN "detectionFailed" ELSE "detected")

LostCandidacy ==
  \E failed \in BOOLEAN :
    /\ proc = "running"
    /\ Become(lostCandidacy(M, failed),
              IF failed THEN "candidacyFailed" ELSE "lostCandidacy")

Recover == recovered = "pending" /\ Run(_recover(M))

\* FrameworkInfo.checkpoint, SlaveInfo.checkpoint and the slave's version are
\* configuration of the scheduler and of the worker process.
FrameworkCheckpoint(f) == f = 0
SlaveCheckpoint(pid) == pid = "w1"
SlaveVersion(pid) == pid = "w1"

RegisterFrameworkMessage(Pids) ==
  \E from \in Pids :
    /\ Cardinality(validating) < MaxValidating
    /\ Visit(registerFramework(M, from, FrameworkCheckpoint(nextFrameworkId)))

ReregisterFrameworkMessage(Pids, Ids) ==
  \E from \in Pids, f \in Ids, failover \in BOOLEAN :
    /\ Cardinality(validating) < MaxValidating
    /\ f < nextFrameworkId
    /\ Visit(reregisterFramework(M, from, f, failover, FrameworkCheckpoint(f)))

RegisterFrameworkValidated ==
  \E v \in validating, validationError \in BOOLEAN :
    /\ v.kind = "register"
    /\ nextFrameworkId <= MaxFrameworkId
    /\ Run(_registerFramework(M, v, validationError))

ReregisterFrameworkValidated ==
  \E v \in validating, validationError \in BOOLEAN :
    /\ v.kind = "reregister"
    /\ Run(_reregisterFramework(M, v, validationError))

UnregisterFrameworkMessage(Pids, Ids) ==
  \E from \in Pids, f \in Ids : Visit(unregisterFramework(M, from, f))

DeactivateFrameworkMessage(Pids, Ids) ==
  \E from \in Pids, f \in Ids : Visit(deactivateFrameworkMessage(M, from, f))

FrameworkFailoverTimeout ==
  \E x \in timers : Run(frameworkFailoverTimeout(M, x[1], x[2]))

Exited(Pids) ==
  \E pid \in Pids, f \in FrameworkIDs :
    /\ IF \E g \in FrameworkIDs : fw[g].pid = pid THEN fw[f].pid = pid
       ELSE f = 0
    /\ Run(exited(M, pid, f))

\* ------------------------------------------------------------------
\* The rate limiter of the schedulers' principal.
\* ------------------------------------------------------------------
\* An event of a scheduler: a message with its name and framework id, or the
\* exit of its process.  seq is its arrival number (history).
EventNames ==
  {"UnregisterFramework", "DeactivateFramework", "ReregisterFramework"}
Event(kind, from, name, f, seq) ==
  [kind |-> kind, from |-> from, name |-> name, f |-> f, seq |-> seq]

\* Master::_visit: the event reaches its handler.  A ReregisterFramework
\* comes from a scheduler that takes the framework over.
_visit(st0, e) ==
  LET st == [st0 EXCEPT !.limiter.last[e.from] = e.seq]
      g == IF \E h \in FrameworkIDs : st.fw[h].pid = e.from
           THEN CHOOSE h \in FrameworkIDs : st.fw[h].pid = e.from
           ELSE 0
  IN IF e.kind = "exited" THEN exited(st, e.from, g)
     ELSE IF e.name = "UnregisterFramework"
     THEN unregisterFramework(st, e.from, e.f)
     ELSE IF e.name = "DeactivateFramework"
     THEN deactivateFrameworkMessage(st, e.from, e.f)
     ELSE reregisterFramework(st, e.from, e.f, TRUE, FrameworkCheckpoint(e.f))

\* The event is throttled: its address is that of a registered framework and
\* a limiter is configured for the principal.
Throttles(st, pid) == st.limiter.on /\ pid \in st.principals

\* RateLimiter::acquire(): the event waits behind those that wait already.
acquire(st, e) == [st EXCEPT !.limiter.waiting = Append(@, e)]

\* Master::exceededCapacity
exceededCapacity(st, e, capacity) ==
  send(st, Msg("FrameworkError", e.from, e.f, NoId, capacity,
               "capacity exceeded"))

\* A visit that lets every message wait, whatever the capacity.
visitUnbounded(st, e) ==
  IF Throttles(st, e.from)
  THEN acquire([st EXCEPT !.limiter.messages = @ + 1], e)
  ELSE _visit(st, e)

\* Master::visit(const MessageEvent&) of an elected and recovered master.
visit(st, e) ==
  IF Throttles(st, e.from)
  THEN IF st.limiter.messages < RateCapacity
       THEN acquire([st EXCEPT !.limiter.messages = @ + 1], e)
       ELSE exceededCapacity(st, e, RateCapacity)
  ELSE _visit(st, e)

\* Master::visit(const ExitedEvent&)
visitExited(st, e) ==
  IF Throttles(st, e.from) THEN acquire(st, e) ELSE _visit(st, e)

\* Master::throttled, or _visit(const ExitedEvent&) deferred: the acquire()
\* of the oldest waiting event is ready.
throttled(st) ==
  LET e == Head(st.limiter.waiting)
  IN _visit([st EXCEPT !.limiter.waiting = Tail(@),
                       !.limiter.messages =
                          IF e.kind = "message" THEN @ - 1 ELSE @],
            e)

\* History: a step is named after what became of the event.
MessageEvent(Pids, Names, Ids) ==
  \E from \in Pids, name \in Names, f \in Ids :
    /\ proc = "running" /\ limiter.arrived < MaxArrivals
    /\ LET st == [M EXCEPT !.limiter.arrived = @ + 1]
           e == Event("message", from, name, f, st.limiter.arrived)
       IN IF ~Serving
          THEN /\ dropped < MaxDropped
               /\ Become([M EXCEPT !.dropped = @ + 1], "message")
          ELSE Become(visit(st, e),
                      IF ~Throttles(M, from) THEN "message"
                      ELSE IF limiter.messages < RateCapacity THEN "throttle"
                      ELSE "exceeded")

ExitedEvent(Pids) ==
  \E pid \in Pids :
    /\ proc = "running" /\ limiter.arrived < MaxArrivals
    /\ LET st == [M EXCEPT !.limiter.arrived = @ + 1]
           e == Event("exited", pid, "", NoId, st.limiter.arrived)
       IN Become(visitExited(st, e),
                 IF Throttles(M, pid) THEN "throttle" ELSE "event")

LimiterReady ==
  /\ proc = "running" /\ limiter.waiting # <<>>
  /\ Become(throttled(M),
            IF Head(limiter.waiting).kind = "message" THEN "message"
            ELSE "event")

\* A worker that holds the id an earlier master gave it re-registers.
RegisterSlaveMessage(Pids) ==
  \E from \in Pids :
    /\ nextSlaveId <= MaxSlaveId
    /\ wid[from] # 0
    /\ Visit(registerSlave(M, from, SlaveCheckpoint(from), SlaveVersion(from)))

\* What a worker may report when it re-registers as slave s: tasks and
\* executors the master holds for s, or, for a slave of an earlier master,
\* tasks and an executor of the framework of that time.  The master does not
\* look at the report of a slave it has removed or is re-admitting: one
\* report stands for all.
Reports(s) ==
  IF CacheHas(sremoved, s) \/ s \in sreregistering
  THEN {[tasks |-> {}, execs |-> {}]}
  ELSE IF getSlave(M, s)
  THEN {[tasks |-> {<<x[1], x[2], stasks[s][x[1]][x[2]].state>> : x \in K},
         execs |-> E] :
          K \in SUBSET {x \in FrameworkIDs \X TaskIDs :
                          hasTask(M, s, x[1], x[2])},
          E \in SUBSET sexecs[s]}
  ELSE IF s = 0
  THEN {[tasks |-> {<<0, t, g[t]>> :
                      t \in {u \in EarlierTaskIDs : g[u] # "NONE"}},
         execs |-> E] :
          g \in {h \in [EarlierTaskIDs -> {"NONE", "RUNNING", "FINISHED"}] :
                   Cardinality({u \in EarlierTaskIDs : h[u] = "RUNNING"})
                     < TotalRes},
          E \in SUBSET {0}}
  ELSE {[tasks |-> {}, execs |-> {}]}

ReregisterSlaveMessage(Pids) ==
  \E from \in Pids :
    /\ wid[from] # NoId
    /\ \E r \in Reports(wid[from]) :
         VisitWorker(reregisterSlave(M, from, wid[from],
                                     SlaveCheckpoint(from), SlaveVersion(from),
                                     r.tasks, r.execs),
                     "ReregisterSlave")

UnregisterSlaveMessage(Pids) ==
  \E from \in Pids :
    wid[from] # NoId /\ Visit(unregisterSlave(M, from, wid[from]))

SlaveRegistered ==
  /\ regQueue # <<>> /\ Head(regQueue).cb = "_registerSlave"
  /\ LET r == Head(regQueue)
         a == apply(registry, r, strict)
     IN Run(_registerSlave([M EXCEPT !.regQueue = Tail(@),
                                     !.registry = a.registry], r, a.result))

SlaveReregistered ==
  /\ regQueue # <<>> /\ Head(regQueue).cb = "_reregisterSlave"
  /\ LET r == Head(regQueue)
         a == apply(registry, r, strict)
     IN Run(_reregisterSlave([M EXCEPT !.regQueue = Tail(@),
                                       !.registry = a.registry], r, a.result))

SlaveRemoved ==
  /\ regQueue # <<>> /\ Head(regQueue).cb = "_removeSlave"
  /\ LET r == Head(regQueue)
         a == apply(registry, r, strict)
     IN Run(_removeSlave([M EXCEPT !.regQueue = Tail(@),
                                   !.registry = a.registry], r, a.result))

\* The removal of a recovered slave under a non-strict registry: only a
\* failure is looked at.
RecoveredSlaveRemoved ==
  /\ regQueue # <<>> /\ Head(regQueue).cb = "fail"
  /\ LET r == Head(regQueue)
         a == apply(registry, r, strict)
         st == [M EXCEPT !.regQueue = Tail(@), !.registry = a.registry]
     IN Run(IF a.result = "error" THEN Abort(st) ELSE st)

RecoveredSlavesTimeout ==
  srecovered # {} /\ Run(recoveredSlavesTimeout(M))

\* SlaveObserver::initialize.
ObserverInitialized ==
  \E s \in SlaveIDs :
    /\ proc = "running" /\ observer[s].at = "spawned"
    /\ Become(ping(M, s), "initialize")

\* The ping timeout of an observer fires.
ObserverTimeout ==
  \E s \in SlaveIDs :
    /\ proc = "running" /\ observer[s].at = "waiting"
    /\ Become(timeout(M, s), "timeout")

\* A PONG reaches an observer; the step notes that the pings sent so far
\* are not unanswered any more.
ObserverPong ==
  \E s \in SlaveIDs :
    /\ proc = "running" /\ observer[s].at \in {"waiting", "stopped"}
    /\ Become([pong(M, s) EXCEPT !.observer[s].sent = 0], "PONG")

\* The dispatch of SlaveObserver::shutdown reaches the master.
ShutdownSlaveDispatched ==
  \E s \in SlaveIDs :
    /\ observer[s].shutdown
    /\ Run(shutdownSlave([M EXCEPT !.observer[s].shutdown = FALSE], s))

\* SlaveObserver::shutdown after too many missed pings.
ShutdownSlave == \E s \in SlaveIDs : getSlave(M, s) /\ Run(shutdownSlave(M, s))

\* The allocator offers resources it has not allocated, and never those of a
\* slave without checkpointing to a framework with it.
Allocate ==
  \E f \in FrameworkIDs, s \in SlaveIDs :
    /\ nextOfferId <= MaxOfferId
    /\ getFramework(M, f) /\ getSlave(M, s)
    /\ sl[s].checkpoint \/ ~fw[f].checkpoint
    /\ \E r \in 1..Available(s) :
         Run(offer([M EXCEPT !.alloc[s] = @ + r], f, s, r))

OfferTimeout == \E o \in OfferIDs : getOffer(M, o) /\ Run(offerTimeout(M, o))

\* The tasks a scheduler launches: task 1 runs on the framework's executor,
\* the others are command tasks.
TaskInfos == {[id |-> t, res |-> r, exec |-> t = 1] :
                t \in TaskIDs, r \in 1..TotalRes}
Batches(n) == UNION {[1..m -> TaskInfos] : m \in 0..n}
OfferLists == UNION {[1..n -> OfferIDs] : n \in 0..MaxOfferList}

\* The handler looks at the tasks and offers of a message only when it comes
\* from the address of the registered framework: one message stands for
\* those it ignores.  Offer ids are ids the master has handed out.
LaunchTasksWithin(n, Pids, Ids, Launches) ==
  \E from \in Pids, f \in Ids, tasks \in Launches, offerIds \in OfferLists :
    /\ Cardinality(launching) < n
    /\ \/ getFramework(M, f) /\ fw[f].pid = from
       \/ tasks = <<>> /\ offerIds = <<>>
    /\ \A i \in 1..Len(offerIds) : offerIds[i] < nextOfferId
    /\ Visit(launchTasks(M, from, f, tasks, offerIds))

LaunchTasksMessage(Pids, Ids, Launches) ==
  LaunchTasksWithin(MaxLaunching, Pids, Ids, Launches)

TasksAuthorized ==
  \E l \in launching :
    \E authorizations \in [1..Len(l.tasks) -> BOOLEAN] :
      Run(_launchTasks(M, l, authorizations))

KillTaskMessage(Pids, Ids) ==
  \E from \in Pids, f \in Ids, t \in TaskIDs : Visit(killTask(M, from, f, t))

\* The master compares the uuid only for a task it holds: one uuid stands for
\* those of a task it does not hold.
StatusUpdateAcknowledgementMessage(Pids, Ids) ==
  \E from \in Pids, f \in Ids, s \in SlaveIDs, t \in TaskIDs,
     uuid \in 0..MaxUuid :
    /\ hasTask(M, s, f, t) \/ uuid = 0
    /\ Visit(statusUpdateAcknowledgement(M, from, s, f, t, uuid))

ReconcileTasksMessage(Pids, Ids) ==
  \E from \in Pids, f \in Ids,
     statuses \in SUBSET [t : TaskIDs, s : SlaveIDs \cup {NoId}] :
    /\ Cardinality(statuses) <= 1
    /\ Visit([reconcileTasks(M, from, f, statuses) EXCEPT
                !.request = IF getFramework(M, f) /\ fw[f].pid = from
                            THEN [f |-> f, statuses |-> statuses]
                            ELSE NoRequest])

\* A worker sends the state its executor reported and, from version 0.21
\* on, the latest state it knows for the task: that state or a later one.
\* The master looks at the states only when it knows the task: one update
\* stands for those of a task it does not know.
WorkerStates == {"RUNNING", "FINISHED"}
StatusUpdateMessage(Pids) ==
  \E from \in Pids, f \in FrameworkIDs, t \in TaskIDs,
     status \in WorkerStates, latest \in WorkerStates \cup {"NONE"},
     uuid \in 1..MaxUuid, acknowledge \in BOOLEAN :
    /\ wid[from] # NoId
    /\ latest # "NONE" => SlaveVersion(from)
    /\ isTerminalState(status) /\ latest # "NONE" => isTerminalState(latest)
    /\ \/ getSlave(M, wid[from]) /\ hasTask(M, wid[from], f, t)
       \/ status = "RUNNING" /\ latest = "NONE" /\ uuid = 1 /\ acknowledge
    /\ VisitWorker(statusUpdate(M, from, IF acknowledge THEN from ELSE NoPid,
                                wid[from], f, t, status, latest, uuid),
                   "StatusUpdate")

ExitedExecutorMessage(Pids) ==
  \E from \in Pids, f \in FrameworkIDs :
    /\ wid[from] # NoId
    /\ VisitWorker(exitedExecutor(M, from, wid[from], f), "ExitedExecutor")

\* ------------------------------------------------------------------
\* Specifications.
\* ------------------------------------------------------------------
\* The master from its construction: election, recovery, the messages that
\* reach it before it serves, and the registration of frameworks after.
NextElection ==
  \/ Detected
  \/ LostCandidacy
  \/ Recover
  \/ RegisterFrameworkMessage(FrameworkPids)
  \/ RegisterFrameworkValidated
  \/ ~Serving /\ ReregisterFrameworkMessage(FrameworkPids, FrameworkIDs)
  \/ ~Serving /\ UnregisterFrameworkMessage(FrameworkPids, FrameworkIDs)
  \/ ~Serving /\ DeactivateFrameworkMessage(FrameworkPids, FrameworkIDs)
  \/ ~Serving /\ LaunchTasksMessage(FrameworkPids, FrameworkIDs, Batches(0))
  \/ ~Serving /\ KillTaskMessage(FrameworkPids, FrameworkIDs)
  \/ ~Serving /\ StatusUpdateAcknowledgementMessage(FrameworkPids, FrameworkIDs)
  \/ ~Serving /\ ReconcileTasksMessage(FrameworkPids, FrameworkIDs)
  \/ ~Serving /\ RegisterSlaveMessage(SlavePids)
  \/ ~Serving /\ ReregisterSlaveMessage(SlavePids)
  \/ ~Serving /\ UnregisterSlaveMessage(SlavePids)
  \/ ~Serving /\ StatusUpdateMessage(SlavePids)
  \/ ~Serving /\ ExitedExecutorMessage(SlavePids)

SpecElection == Init /\ [][NextElection]_vars

\* The master once it is elected and has recovered the registry.
InitServing ==
  \E reg \in SUBSET {0}, isStrict \in BOOLEAN :
    Start(_recover(detected(Fresh(reg, isStrict,
                     [w \in SlavePids |-> IF w = "w1" THEN 0 ELSE NoId]),
                   "self")))

\* The life of frameworks: registration, failover and removal.
NextFrameworks ==
  \/ RegisterFrameworkMessage(FrameworkPids)
  \/ ReregisterFrameworkMessage(FrameworkPids, FrameworkIDs)
  \/ RegisterFrameworkValidated
  \/ ReregisterFrameworkValidated
  \/ UnregisterFrameworkMessage(FrameworkPids, FrameworkIDs)
  \/ FrameworkFailoverTimeout
  \/ Exited(FrameworkPids)

SpecFrameworks == InitServing /\ [][NextFrameworks]_vars

\* The life of slaves.
NextSlaves ==
  \/ RegisterSlaveMessage(SlavePids)
  \/ ReregisterSlaveMessage(SlavePids)
  \/ UnregisterSlaveMessage(SlavePids)
  \/ SlaveRegistered
  \/ SlaveReregistered
  \/ SlaveRemoved
  \/ RecoveredSlaveRemoved
  \/ RecoveredSlavesTimeout
  \/ ShutdownSlave
  \/ Exited(SlavePids)

SpecSlaves == InitServing /\ [][NextSlaves]_vars

\* The master serving the scheduler at a1, registered as framework 1, and
\* the worker w1, registered as slave 1: the state that election, recovery and
\* the two registrations lead to.
Scheduler == {"a1"}
Worker == {"w1"}
Then(st) ==
  [Deliver(st) EXCEPT !.out = {}, !.transitions = {}, !.recovLog = {},
                      !.outcome = NoOutcome, !.request = NoRequest]

RegisteredWith(reg, isStrict, worker) ==
  LET s0 == _recover(detected(Fresh(reg, isStrict,
                       [w \in SlavePids |-> IF w = "w1" THEN 0 ELSE NoId]),
                     "self"))
      s1 == Then(registerFramework(s0, "a1", FrameworkCheckpoint(1)))
      s2 == Then(_registerFramework(s1, CHOOSE v \in s1.validating : TRUE,
                                    FALSE))
      s3 == Then(registerSlave(s2, worker, SlaveCheckpoint(worker),
                               SlaveVersion(worker)))
      r == Head(s3.regQueue)
      a == apply(s3.registry, r, isStrict)
  IN Then(_registerSlave([s3 EXCEPT !.regQueue = Tail(@),
                                    !.registry = a.registry], r, a.result))

Registered(reg, isStrict) == RegisteredWith(reg, isStrict, "w1")

InitRegistered ==
  \E reg \in SUBSET {0}, isStrict \in BOOLEAN : Start(Registered(reg, isStrict))

\* Offers and launches.
NextLaunch ==
  \/ Allocate
  \/ OfferTimeout
  \/ LaunchTasksMessage(Scheduler, {1}, Batches(MaxBatch))
  \/ TasksAuthorized
  \/ KillTaskMessage(Scheduler, {1})
  \/ UnregisterFrameworkMessage(Scheduler, {1})
  \/ UnregisterSlaveMessage(Worker)
  \/ SlaveRemoved

SpecLaunch == InitRegistered /\ [][NextLaunch]_vars

\* The status updates of launched tasks, and the removal of their framework
\* and slave.
NextUpdates ==
  \/ Allocate
  \/ LaunchTasksMessage(Scheduler, {1}, Batches(1))
  \/ TasksAuthorized
  \/ StatusUpdateMessage(Worker)
  \/ StatusUpdateAcknowledgementMessage(Scheduler, {1})
  \/ ExitedExecutorMessage(Worker)
  \/ UnregisterFrameworkMessage(Scheduler, {1})
  \/ UnregisterSlaveMessage(Worker)
  \/ SlaveRemoved

SpecUpdates == InitRegistered /\ [][NextUpdates]_vars

\* The framework and the slave an earlier master left re-register: the
\* scheduler at a1 as framework 0, the worker w1 as slave 0 with its tasks.
NextReregister ==
  \/ ReregisterFrameworkMessage(Scheduler, {0})
  \/ ReregisterFrameworkValidated
  \/ UnregisterFrameworkMessage(Scheduler, {0})
  \/ Exited(Scheduler \cup Worker)
  \/ FrameworkFailoverTimeout
  \/ ReregisterSlaveMessage(Worker)
  \/ SlaveReregistered
  \/ StatusUpdateMessage(Worker)
  \/ StatusUpdateAcknowledgementMessage(Scheduler, {0})
  \/ KillTaskMessage(Scheduler, {0})

SpecReregister == InitServing /\ [][NextReregister]_vars

\* The failover of one framework: the scheduler of framework 0 appears at
\* a1 or a2, its address exits, and the failover timer fires.  A pending
\* timer fires in the end (delay() of libprocess).
NextFailover ==
  \/ ReregisterFrameworkMessage(FrameworkPids, {0})
  \/ ReregisterFrameworkValidated
  \/ Exited(FrameworkPids)
  \/ FrameworkFailoverTimeout

SpecFailover ==
  InitServing /\ [][NextFailover]_vars /\ WF_vars(FrameworkFailoverTimeout)

\* The ways an outstanding offer ends other than by a launch: the offer
\* times out, its framework is deactivated, disconnected, failed over or
\* removed, its slave is disconnected or removed.
NextOffers ==
  \/ Allocate
  \/ OfferTimeout
  \/ DeactivateFrameworkMessage(Scheduler, {1})
  \/ ReregisterFrameworkMessage(FrameworkPids, {1})
  \/ ReregisterFrameworkValidated
  \/ UnregisterFrameworkMessage(Scheduler, {1})
  \/ FrameworkFailoverTimeout
  \/ Exited(Scheduler \cup Worker)
  \/ UnregisterSlaveMessage(Worker)
  \/ SlaveRemoved

SpecOffers == InitRegistered /\ [][NextOffers]_vars

\* A worker the master removes goes on sending: w2, which keeps no
\* checkpoint, registers, is removed when its connection breaks, and sends
\* messages with the id it was given; the scheduler of framework 0 is there
\* to be told.
Unchecked == {"w2"}
NextRemoved ==
  \/ ReregisterFrameworkMessage(Scheduler, {0})
  \/ ReregisterFrameworkValidated
  \/ RegisterSlaveMessage(Unchecked)
  \/ SlaveRegistered
  \/ Exited(Unchecked)
  \/ SlaveRemoved
  \/ ReregisterSlaveMessage(Unchecked)
  \/ StatusUpdateMessage(Unchecked)
  \/ ExitedExecutorMessage(Unchecked)

SpecRemoved == InitServing /\ [][NextRemoved]_vars

\* Launches of at most one task that asks for one unit of resources.
UnitBatches == {b \in Batches(1) : \A i \in DOMAIN b : b[i].res = 1}

\* Reconciliation: the scheduler asks for the state of tasks that are
\* pending, launched, updated by the worker or unknown, on slaves that are
\* registered, recovered (slave 0 of the registry), being removed or unknown.
NextReconcile ==
  \/ Allocate
  \/ LaunchTasksMessage(Scheduler, {1}, UnitBatches)
  \/ TasksAuthorized
  \/ StatusUpdateMessage(Worker)
  \/ ReconcileTasksMessage(Scheduler, {1})
  \/ UnregisterSlaveMessage(Worker)
  \/ SlaveRemoved
  \/ RecoveredSlavesTimeout
  \/ RecoveredSlaveRemoved

SpecReconcile == InitRegistered /\ [][NextReconcile]_vars

\* A registered worker re-registers: w1, which tells its version, or w2, a
\* worker of a version before 0.21 that tells none; it reports some of the
\* tasks the master launched on it.
InitEitherWorker ==
  \E isStrict \in BOOLEAN, worker \in SlavePids :
    Start(RegisteredWith({}, isStrict, worker))

NextKnown ==
  \/ Allocate
  \/ LaunchTasksMessage(Scheduler, {1}, Batches(1))
  \/ TasksAuthorized
  \/ StatusUpdateMessage(SlavePids)
  \/ UnregisterFrameworkMessage(Scheduler, {1})
  \/ getSlave(M, 1) /\ ReregisterSlaveMessage({sl[1].pid})

SpecKnown == InitEitherWorker /\ [][NextKnown]_vars

\* The connection of a worker exits: of w1, which checkpoints, or of w2, which
\* does not.  Where this master has registered framework 1, which does not
\* checkpoint, the framework launches on slave 1; where it has registered
\* none, framework 0, which checkpoints, re-registers and w1 re-registers as
\* slave 0 with the tasks framework 0 had on it.
InitExited == InitEitherWorker \/ InitServing

NextExited ==
  \/ Allocate
  \/ LaunchTasksMessage(Scheduler, {1}, UnitBatches)
  \/ TasksAuthorized
  \/ nextFrameworkId = 1 /\ ReregisterFrameworkMessage(Scheduler, {0})
  \/ ReregisterFrameworkValidated
  \/ ReregisterSlaveMessage(Worker)
  \/ SlaveReregistered
  \/ Exited(SlavePids)
  \/ SlaveRemoved

SpecExited == InitExited /\ [][NextExited]_vars

\* The schedulers' principal has a rate limiter: the scheduler of framework 1
\* at a1 and the one that takes the framework over at a2 send messages and
\* exit, and the limiter lets the waiting events through one by one.
InitLimited == Start([Registered({}, FALSE) EXCEPT !.limiter.on = TRUE])

NextLimited ==
  \/ MessageEvent(FrameworkPids, EventNames, {1})
  \/ ExitedEvent(FrameworkPids)
  \/ LimiterReady
  \/ ReregisterFrameworkValidated
  \/ FrameworkFailoverTimeout

SpecLimited == InitLimited /\ [][NextLimited]_vars

\* The registrar on its own: any operation on any slave id is handed to it,
\* whatever the registry holds, and it performs them in the order of the
\* calls.  The step that performs an operation records its answer in out.
Operations == {"admit", "readmit", "remove"}
InitRegistrar ==
  \E reg \in SUBSET SlaveIDs, isStrict \in BOOLEAN :
    Start(Fresh(reg, isStrict, [w \in SlavePids |-> NoId]))
RegistrarApply(Ops, Ids) ==
  \E op \in Ops, id \in Ids :
    /\ Len(regQueue) < MaxOperations
    /\ Run(applyOp(M, RegOp(op, "perform", id, NoPid, FALSE, FALSE, {}, {})))
RegistrarPerform ==
  /\ regQueue # <<>> /\ Head(regQueue).cb = "perform"
  /\ proc = "running"
  /\ LET r == Head(regQueue)
         a == apply(registry, r, strict)
     IN Become(send([M EXCEPT !.regQueue = Tail(@),
                              !.registry = a.registry],
                    Msg(r.op, "registrar", NoId, r.id, NoId, a.result)),
               "perform")
NextRegistrar ==
  \/ RegistrarApply(Operations, SlaveIDs)
  \/ RegistrarPerform
SpecRegistrar == InitRegistrar /\ [][NextRegistrar]_vars

\* Slaves under observation: they register, are pinged, answer or do not,
\* lose their connection and come back.
NextObserved ==
  \/ RegisterSlaveMessage(Worker)
  \/ SlaveRegistered
  \/ ReregisterSlaveMessage(Worker)
  \/ SlaveReregistered
  \/ Exited(Worker)
  \/ SlaveRemoved
  \/ ObserverInitialized
  \/ ObserverTimeout
  \/ ObserverPong
  \/ ShutdownSlaveDispatched
SpecObserved == InitServing /\ [][NextObserved]_vars

\* ------------------------------------------------------------------
\* process::Future<T>.  The operators work on the record of futures; the
\* section of a call that holds the lock of the future is one step.
\* ------------------------------------------------------------------
Returned(fs, op, i, result) ==
  [fs EXCEPT !.last = [op |-> op, f |-> i, result |-> result]]

RECURSIVE run(_, _, _)

\* A set that does not look at the state of the future.
setAgain(fs, i, t) ==
  Returned([fs EXCEPT !.data[i].t = t, !.data[i].state = "READY",
                      !.completing = @ \cup {i}], "set", i, TRUE)

\* Future<T>::set, Future<T>::fail and Promise<T>::discard(future), up to
\* the release of the lock.
set(fs, i, t) ==
  IF fs.data[i].state = "PENDING"
  THEN Returned([fs EXCEPT !.data[i].t = t, !.data[i].state = "READY",
                           !.completing = @ \cup {i}], "set", i, TRUE)
  ELSE Returned(fs, "set", i, FALSE)

fail(fs, i, message) ==
  IF fs.data[i].state = "PENDING"
  THEN Returned([fs EXCEPT !.data[i].message = message,
                           !.data[i].state = "FAILED",
                           !.completing = @ \cup {i}], "fail", i, TRUE)
  ELSE Returned(fs, "fail", i, FALSE)

discardPromise(fs, i) ==
  IF fs.data[i].state = "PENDING"
  THEN Returned([fs EXCEPT !.data[i].state = "DISCARDED",
                           !.completing = @ \cup {i}],
                "Promise::discard", i, TRUE)
  ELSE Returned(fs, "Promise::discard", i, FALSE)

\* Future<T>::discard, the request of a consumer, up to the release of the
\* lock.
discard(fs, i) ==
  IF ~fs.data[i].discard /\ fs.data[i].state = "PENDING"
  THEN Returned([fs EXCEPT !.data[i].discard = TRUE,
                           !.discarding = @ \cup {i}], "discard", i, TRUE)
  ELSE Returned(fs, "discard", i, FALSE)

\* The registration of a callback: it is called at once if the future is
\* already in the state it is for, kept if the future is pending, and
\* dropped otherwise.
onDiscard(fs, i, c) ==
  IF fs.data[i].discard THEN run(fs, <<c>>, i)
  ELSE IF fs.data[i].state = "PENDING"
  THEN [fs EXCEPT !.data[i].onDiscardCallbacks = Append(@, c)]
  ELSE fs

onReady(fs, i, c) ==
  IF fs.data[i].state = "READY" THEN run(fs, <<c>>, i)
  ELSE IF fs.data[i].state = "PENDING"
  THEN [fs EXCEPT !.data[i].onReadyCallbacks = Append(@, c)]
  ELSE fs

onFailed(fs, i, c) ==
  IF fs.data[i].state = "FAILED" THEN run(fs, <<c>>, i)
  ELSE IF fs.data[i].state = "PENDING"
  THEN [fs EXCEPT !.data[i].onFailedCallbacks = Append(@, c)]
  ELSE fs

onDiscarded(fs, i, c) ==
  IF fs.data[i].state = "DISCARDED" THEN run(fs, <<c>>, i)
  ELSE IF fs.data[i].state = "PENDING"
  THEN [fs EXCEPT !.data[i].onDiscardedCallbacks = Append(@, c)]
  ELSE fs

onAny(fs, i, c) ==
  IF fs.data[i].state = "PENDING"
  THEN [fs EXCEPT !.data[i].onAnyCallbacks = Append(@, c)]
  ELSE run(fs, <<c>>, i)

\* Latch::trigger: true for the first call only.
trigger(fs) == [fs EXCEPT !.after.latch = "triggered"]
triggers(fs) == fs.after.latch # "triggered"

\* What associate binds to the future it follows: Future<T>::set,
\* Future<T>::fail or internal::discarded on the future of the promise.
associated(fs, p, i) ==
  IF fs.data[i].state = "READY" THEN set(fs, p, fs.data[i].t)
  ELSE IF fs.data[i].state = "FAILED" THEN fail(fs, p, fs.data[i].message)
  ELSE discardPromise(fs, p)

\* Promise<T>::associate(future) of the promise with future p.
associate(fs, p, i) ==
  LET follow == [kind |-> "associated", id |-> p]
      fs1 == onDiscard([fs EXCEPT !.data[p].associated = TRUE], p,
                       [kind |-> "discard", id |-> i])
  IN IF fs.data[p].state = "PENDING" /\ ~fs.data[p].associated
     THEN onDiscarded(onFailed(onReady(fs1, i, follow), i, follow), i, follow)
     ELSE fs

\* internal::expired without the latch: the handler runs whenever the timer
\* fires.
expiredAnyway(fs, p, i, h) ==
  associate([fs EXCEPT !.after.timer = "fired", !.after.handled = @ + 1,
                       !.after.by = "handler",
                       !.after.pending = fs.data[i].state = "PENDING"],
            p, h)

\* internal::expired: the timer of after fires; h is the future the handler
\* returns.
expired(fs, p, i, h) ==
  IF triggers(fs)
  THEN associate([trigger(fs) EXCEPT
                    !.after.timer = "fired", !.after.handled = @ + 1,
                    !.after.by = "handler",
                    !.after.pending = fs.data[i].state = "PENDING"],
                 p, h)
  ELSE [fs EXCEPT !.after.timer = "fired"]

\* internal::after, past its CHECK: the future i is not pending.
internalAfter(fs, p, i) ==
  IF triggers(fs)
  THEN associate([trigger(fs) EXCEPT !.after.timer = "cancelled",
                                     !.after.by = "completion"], p, i)
  ELSE fs

\* internal::run: the callbacks are called in the order of registration.  A
\* deferred call of the AwaitProcess is a dispatch into its mailbox; the
\* callbacks of after and of associate are called in place.
run(fs, callbacks, i) ==
  IF callbacks = <<>> THEN fs
  ELSE LET c == Head(callbacks)
           fs1 == IF c.kind = "app" THEN [fs EXCEPT !.runs[c.id] = @ + 1]
                  ELSE IF c.kind = "waited"
                  THEN [fs EXCEPT !.await.mailbox = Append(@, <<"waited", i>>)]
                  ELSE IF c.kind = "after" THEN internalAfter(fs, c.id, i)
                  ELSE IF c.kind = "associated" THEN associated(fs, c.id, i)
                  ELSE IF c.kind = "discard" THEN discard(fs, c.id)
                  ELSE [fs EXCEPT !.await.mailbox =
                                     Append(@, <<"discarded", i>>)]
       IN run(fs1, Tail(callbacks), i)

\* The rest of a set, fail or discard that returns true: the callbacks of
\* the new state, then those registered with onAny, are run and cleared.
completion(fs, i) ==
  LET d == fs.data[i]
      fs1 == IF d.state = "READY"
             THEN [run(fs, d.onReadyCallbacks, i)
                     EXCEPT !.data[i].onReadyCallbacks = <<>>]
             ELSE IF d.state = "FAILED"
             THEN [run(fs, d.onFailedCallbacks, i)
                     EXCEPT !.data[i].onFailedCallbacks = <<>>]
             ELSE [run(fs, d.onDiscardedCallbacks, i)
                     EXCEPT !.data[i].onDiscardedCallbacks = <<>>]
  IN [run(fs1, d.onAnyCallbacks, i)
        EXCEPT !.data[i].onAnyCallbacks = <<>>, !.completing = @ \ {i}]

\* The rest of a discard that returns true.
discardRequested(fs, i) ==
  [run(fs, fs.data[i].onDiscardCallbacks, i)
     EXCEPT !.data[i].onDiscardCallbacks = <<>>, !.discarding = @ \ {i}]

\* Future<T>::after on the future i: p is the future of its promise.
futureAfter(fs, p, i) ==
  onDiscard(onAny([fs EXCEPT !.after.latch = "armed",
                             !.after.timer = "armed"],
                  i, [kind |-> "after", id |-> p]),
            p, [kind |-> "discard", id |-> i])

\* The values a producer sets, and the message it fails with.
Values == {0, 1}
Failures == {"failure"}
CallbackKinds == {"onReady", "onFailed", "onDiscarded", "onAny", "onDiscard"}

\* A step of the futures; the master is not involved.
FutureStep(fs, event) == proc = "running" /\ Become([M EXCEPT !.futures = fs], event)
\* A set, fail or discard of a producer; the step counts those that
\* returned true.
Produced(fs, i) ==
  FutureStep([fs EXCEPT !.won[i] = @ + (IF fs.last.result THEN 1 ELSE 0)],
             fs.last.op)

FutureSet(Ids, Ts) ==
  \E i \in Ids, t \in Ts : Produced(set(futures, i, t), i)
FutureFail(Ids) ==
  \E i \in Ids, m \in Failures : Produced(fail(futures, i, m), i)
PromiseDiscard(Ids) ==
  \E i \in Ids : Produced(discardPromise(futures, i), i)
FutureCompleted ==
  \E i \in futures.completing : FutureStep(completion(futures, i), "completed")
FutureDiscard(Ids) ==
  \E i \in Ids : FutureStep(discard(futures, i), "discard")
FutureDiscardRequested ==
  \E i \in futures.discarding :
    FutureStep(discardRequested(futures, i), "discardRequested")
\* A caller registers a callback of its own, each one once.
FutureOn(Ids) ==
  \E i \in Ids, c \in CallbackIDs, kind \in CallbackKinds :
    /\ futures.registered[c].kind = "none"
    /\ (\A b \in CallbackIDs : b < c => futures.registered[b].kind # "none")
    /\ LET cb == [kind |-> "app", id |-> c]
           fs == [futures EXCEPT !.registered[c] = [f |-> i, kind |-> kind]]
       IN FutureStep(IF kind = "onReady" THEN onReady(fs, i, cb)
                     ELSE IF kind = "onFailed" THEN onFailed(fs, i, cb)
                     ELSE IF kind = "onDiscarded" THEN onDiscarded(fs, i, cb)
                     ELSE IF kind = "onAny" THEN onAny(fs, i, cb)
                     ELSE onDiscard(fs, i, cb), kind)

InitFutures == Start(Fresh({}, FALSE, [w \in SlavePids |-> NoId]))
\* One future, its producers, its consumers and their callbacks.
OneFuture == {1}
NextFuture ==
  \/ FutureSet(OneFuture, Values)
  \/ FutureFail(OneFuture)
  \/ PromiseDiscard(OneFuture)
  \/ FutureCompleted
  \/ FutureDiscard(OneFuture)
  \/ FutureDiscardRequested
  \/ FutureOn(OneFuture)
SpecFuture == InitFutures /\ [][NextFuture]_vars

\* ------------------------------------------------------------------
\* process::await(list) and its AwaitProcess.  Future 0 is the future of
\* the promise of the process; the list holds ids of the other futures.
\* ------------------------------------------------------------------
terminate(fs) == [fs EXCEPT !.await.at = "terminated"]

\* await: an empty list is the value of a future that is ready from the
\* start; otherwise the process is spawned.
await(fs, list) ==
  IF list = <<>>
  THEN [fs EXCEPT !.data[0].state = "READY", !.data[0].t = list]
  ELSE [fs EXCEPT !.await = [at |-> "spawned", futures |-> list,
                             ready |-> 0, mailbox |-> <<>>]]

\* AwaitProcess::initialize.
initialize(fs) ==
  LET RECURSIVE each(_, _)
      each(a, k) ==
        IF k > Len(fs.await.futures) THEN a
        ELSE each(onAny(a, fs.await.futures[k], [kind |-> "waited", id |-> k]),
                  k + 1)
  IN [each(onDiscard(fs, 0, [kind |-> "discarded", id |-> 0]), 1)
        EXCEPT !.await.at = "running"]

\* AwaitProcess::discarded.
discarded(fs) ==
  terminate(IF fs.data[0].state = "PENDING"
            THEN completion(discardPromise(fs, 0), 0) ELSE fs)

\* A process that sets its promise at the first future that is not pending.
waitedFirst(fs, i) ==
  LET fs1 == [fs EXCEPT !.await.ready = @ + 1]
  IN IF fs1.data[0].state = "PENDING"
     THEN terminate(completion(set(fs1, 0, fs1.await.futures), 0))
     ELSE terminate(fs1)

\* AwaitProcess::waited, past its CHECK.
waited(fs, i) ==
  LET fs1 == [fs EXCEPT !.await.ready = @ + 1]
  IN IF fs1.await.ready = Len(fs1.await.futures)
     THEN IF fs1.data[0].state = "PENDING"
          THEN terminate(completion(set(fs1, 0, fs1.await.futures), 0))
          ELSE terminate(fs1)
     ELSE fs1

\* The lists await is called with: futures may repeat.
Lists ==
  UNION {[1..n -> InputIDs] : n \in 0..MaxAwaited}

Await ==
  \E list \in Lists :
    /\ futures.await.at = "none" /\ futures.data[0].state = "PENDING"
    /\ FutureStep([await(futures, list) EXCEPT !.awaited = list], "await")
AwaitInitialized ==
  /\ futures.await.at = "spawned"
  /\ FutureStep(initialize(futures), "initialize")
\* The process handles the next event of its mailbox; a terminated process
\* drops it.
AwaitVisited ==
  /\ futures.await.at \in {"running", "terminated"}
  /\ futures.await.mailbox # <<>>
  /\ LET e == Head(futures.await.mailbox)
         fs == [futures EXCEPT !.await.mailbox = Tail(@)]
     IN IF futures.await.at = "terminated" THEN FutureStep(fs, "dropped")
        ELSE IF e[1] = "discarded" THEN FutureStep(discarded(fs), "discarded")
        ELSE IF fs.data[e[2]].state = "PENDING"
        THEN proc = "running" /\ Become(Abort(M), "waited")
        ELSE FutureStep(waited(fs, e[2]), "waited")

\* The futures that are pending, and those nobody asked to discard yet.
Pending == {i \in FutureIDs : futures.data[i].state = "PENDING"}
Wanted == {i \in Pending : ~futures.data[i].discard}

\* The futures of a list complete in any order, before or after await is
\* called, each by the first call of its producer; the caller may ask once
\* to discard the future await returned.
NextAwait ==
  \/ Await
  \/ AwaitInitialized
  \/ AwaitVisited
  \/ FutureSet(InputIDs \cap Pending, {1})
  \/ FutureFail(InputIDs \cap Pending)
  \/ PromiseDiscard(InputIDs \cap Pending)
  \/ FutureCompleted
  \/ FutureDiscard({0} \cap Wanted)
  \/ FutureDiscardRequested
SpecAwait == InitFutures /\ [][NextAwait]_vars

\* Launches of one framework that wait for their authorizations together,
\* and the kills of their tasks.
NextKilled ==
  \/ Allocate
  \/ LaunchTasksWithin(MaxConcurrent, Scheduler, {1}, UnitBatches)
  \/ TasksAuthorized
  \/ KillTaskMessage(Scheduler, {1})
SpecKilled == InitRegistered /\ [][NextKilled]_vars

\* Two frameworks that hold offers: the framework of an earlier master
\* re-registers from a2 beside framework 1, and either scheduler answers
\* with the offer ids of its choice.
NextForeign ==
  \/ ReregisterFrameworkMessage({"a2"}, {0})
  \/ ReregisterFrameworkValidated
  \/ Allocate
  \/ LaunchTasksMessage(FrameworkPids, FrameworkIDs, UnitBatches)
  \/ TasksAuthorized

SpecForeign == InitRegistered /\ [][NextForeign]_vars

\* ------------------------------------------------------------------
\* ZooKeeperMasterDetectorProcess.  A MasterInfo is named by the membership
\* whose data it was read from.
\* ------------------------------------------------------------------
\* promises::set and promises::fail: every waiting detect() is answered.
setPromises(d, l) ==
  [d EXCEPT !.reported = IF d.promises > 0 THEN [kind |-> "set", leader |-> l]
                         ELSE @,
            !.promises = 0]
failPromises(d) ==
  [d EXCEPT !.reported = IF d.promises > 0
                         THEN [kind |-> "failed", leader |-> NoId] ELSE @,
            !.promises = 0]

\* ZooKeeperMasterDetectorProcess::detect(previous).
detect(d, previous) ==
  IF d.error THEN [d EXCEPT !.reported = [kind |-> "failed", leader |-> NoId]]
  ELSE IF d.leader # previous
  THEN [d EXCEPT !.reported = [kind |-> "set", leader |-> d.leader]]
  ELSE [d EXCEPT !.promises = @ + 1]

\* ZooKeeperMasterDetectorProcess::detected(_leader): the future of the
\* group's leader detector failed, or holds no membership or one whose data
\* is then fetched.
leaderDetected(d, failed, _leader) ==
  IF failed
  THEN failPromises([d EXCEPT !.error = TRUE, !.leader = NoId])
  ELSE IF _leader = NoId
  THEN LET d1 == [d EXCEPT !.leader = NoId, !.observed = NoId]
       IN setPromises(d1, d1.leader)
  ELSE [d EXCEPT !.fetching[_leader] = @ + 1, !.observed = _leader]

\* ZooKeeperMasterDetectorProcess::fetched(membership, data): the fetch
\* failed, or the data does not parse, or it is the MasterInfo.
fetched(d, membership, data) ==
  LET d1 == [d EXCEPT !.fetching[membership] = @ - 1,
                      !.fetchedFor = membership]
  IN IF data # "info" THEN failPromises([d1 EXCEPT !.leader = NoId])
     ELSE setPromises([d1 EXCEPT !.leader = membership], membership)

DetectorStep(d, event) ==
  proc = "running" /\ Become([M EXCEPT !.detector = d], event)

\* A caller asks for the leader, naming the one it knows.
Detect ==
  \E previous \in Memberships \cup {NoId} :
    /\ detector.promises < MaxPromises
    /\ DetectorStep(detect(detector, previous), "detect")

\* detector.detect(previous) of the group completes with a leader other
\* than the previous one, or fails; after a failure nothing is detected.
LeaderDetected ==
  \E failed \in BOOLEAN, _leader \in Memberships \cup {NoId} :
    /\ ~detector.error
    /\ failed => _leader = NoId
    /\ ~failed => _leader # detector.observed
    /\ _leader # NoId => detector.fetching[_leader] < MaxFetches
    /\ DetectorStep(leaderDetected(detector, failed, _leader), "detected")

\* group->data(membership) completes: the fetches complete in any order.
Fetched ==
  \E membership \in Memberships, data \in {"info", "failed", "unparsed"} :
    /\ detector.fetching[membership] > 0
    /\ DetectorStep(fetched(detector, membership, data), "fetched")

NextDetector ==
  \/ Detect
  \/ LeaderDetected
  \/ Fetched
SpecDetector == InitFutures /\ [][NextDetector]_vars

\* ------------------------------------------------------------------
\* Future<T>::after.  Future 1 is the future after is called on, future 0
\* the future of the promise after returns, future 2 the future the handler
\* returns.
\* ------------------------------------------------------------------
After ==
  /\ futures.after.latch = "none"
  /\ FutureStep(futureAfter(futures, 0, 1), "after")
\* The timer fires; one that is cancelled while it fires is not stopped.
Expired ==
  /\ futures.after.timer \in {"armed", "cancelled"}
  /\ FutureStep(expired(futures, 0, 1, 2), "expired")

\* The future and the future of the handler complete at any time, each by
\* the first call of its producer, the one with 1 and the other with 0.
NextAfter ==
  \/ After
  \/ Expired
  \/ FutureSet({1} \cap Pending, {1})
  \/ FutureSet({2} \cap Pending, {0})
  \/ FutureFail({1, 2} \cap Pending)
  \/ PromiseDiscard({1, 2} \cap Pending)
  \/ FutureCompleted
  \/ FutureDiscard({0} \cap Wanted)
  \/ FutureDiscardRequested
SpecAfter == InitFutures /\ [][NextAfter]_vars

\* ------------------------------------------------------------------
\* Properties.
\* ------------------------------------------------------------------
Slots == SlaveIDs \X FrameworkIDs \X TaskIDs
TaskAt(x) == stasks[x[1]][x[2]][x[3]]

\* C1: once the state of a task is terminal, no status update changes it,
\* neither one a worker sends nor one the master generates when it removes
\* the worker or the framework of the task.
C1_TerminalStateIsFinal ==
  \A x \in transitions : isTerminalState(x[1]) => x[2] = x[1]

Sum(g(_), S) ==
  LET RECURSIVE sum(_)
      sum(R) == IF R = {} THEN 0
                ELSE LET x == CHOOSE y \in R : TRUE IN g(x) + sum(R \ {x})
  IN sum(S)

\* Resources in use by the tasks and executors on slave s, and offered on it.
UsedBy(s) ==
  Sum(LAMBDA x : IF isTerminalState(TaskAt(x).state) THEN 0 ELSE TaskAt(x).res,
      {x \in Slots : x[1] = s})
  + ExecRes * Cardinality(sexecs[s])
OfferedOn(s) == Sum(LAMBDA o : offers[o].res, soffers[s])

\* C3: for every registered slave the resources in use by the tasks and
\* executors on it plus those offered on it never exceed its total, the
\* allocator offering only what it has not allocated.
C3_NoOverAllocation ==
  \A s \in SlaveIDs :
    getSlave(M, s) =>
      /\ UsedOf(M, s) = UsedBy(s)
      /\ UsedBy(s) + OfferedOn(s) <= TotalRes

\* A slave whose resources are all taken: part by a launched task, the rest
\* by an outstanding offer.
C3_Witness ==
  \E s \in SlaveIDs :
    /\ getSlave(M, s)
    /\ UsedBy(s) > 0 /\ OfferedOn(s) > 0
    /\ UsedBy(s) + OfferedOn(s) = TotalRes

\* C5: every offer the master holds is in the offer set of its framework and
\* in that of its slave, and no framework or slave holds an offer the master
\* does not hold.
C5_OffersConsistent ==
  /\ \A o \in OfferIDs :
       getOffer(M, o) =>
         /\ getFramework(M, offers[o].fid) /\ o \in foffers[offers[o].fid]
         /\ getSlave(M, offers[o].sid) /\ o \in soffers[offers[o].sid]
  /\ \A f \in FrameworkIDs : \A o \in foffers[f] :
       getOffer(M, o) /\ offers[o].fid = f
  /\ \A s \in SlaveIDs : \A o \in soffers[s] :
       getOffer(M, o) /\ offers[o].sid = s

\* An offer is held while an earlier one has been removed.
C5_Witness ==
  \E o \in OfferIDs, p \in OfferIDs :
    /\ getOffer(M, o) /\ o \in foffers[offers[o].fid]
    /\ p < nextOfferId /\ ~getOffer(M, p)

\* C10: for every task of an accepted launch, while its framework stays
\* registered, the master sends RunTask to the slave or a terminal status
\* update (TASK_ERROR, TASK_LOST, TASK_KILLED) to the framework: no task is
\* dropped silently.
C10_EveryTaskAnswered ==
  outcome.f # NoId /\ outcome.stayed =>
    \A i \in 1..Len(outcome.results) :
      outcome.results[i] # "none" \/ outcome.ids[i] \in outcome.killed

RegisteredIds == {s \in SlaveIDs : getSlave(M, s)}
RemovedIds == {s \in SlaveIDs : CacheHas(sremoved, s)}
Disjoint(A, B) == A \cap B = {}

\* C4: every known worker is in exactly one of recovered, registering,
\* reregistering, registered, removing and removed: no two of the sets share
\* a slave, and no address that is registering is that of a registered slave.
C4_OneLifecycleSet ==
  /\ Disjoint(srecovered, sreregistering) /\ Disjoint(srecovered, RegisteredIds)
  /\ Disjoint(srecovered, sremoving) /\ Disjoint(srecovered, RemovedIds)
  /\ Disjoint(sreregistering, RegisteredIds)
  /\ Disjoint(sreregistering, sremoving)
  /\ Disjoint(sreregistering, RemovedIds)
  /\ Disjoint(RegisteredIds, sremoving) /\ Disjoint(RegisteredIds, RemovedIds)
  /\ Disjoint(sremoving, RemovedIds)
  /\ \A p \in sregistering : \A s \in SlaveIDs : sl[s].pid # p

\* C4 as the code has it: recovered, reregistering, registered and removed
\* share no slave, a slave being removed is neither recovered nor registered,
\* and no address that is registering is that of a registered slave.  A slave
\* being removed may also be removed or re-registering.
C4_LifecycleSets ==
  /\ Disjoint(srecovered, sreregistering) /\ Disjoint(srecovered, RegisteredIds)
  /\ Disjoint(srecovered, sremoving) /\ Disjoint(srecovered, RemovedIds)
  /\ Disjoint(sreregistering, RegisteredIds)
  /\ Disjoint(sreregistering, RemovedIds)
  /\ Disjoint(RegisteredIds, sremoving) /\ Disjoint(RegisteredIds, RemovedIds)
  /\ \A p \in sregistering : \A s \in SlaveIDs : sl[s].pid # p

\* removeSlave has recorded a slave as removed while the registrar has not
\* answered yet.
C4_Witness ==
  \E s \in sremoving :
    /\ s \in RemovedIds /\ s \notin RegisteredIds
    /\ regQueue # <<>> /\ Head(regQueue).op = "remove"

\* C6: for every registered framework, a task is in the framework's map iff
\* it is in the map for that framework of the registered slave it runs on,
\* also after framework and slave re-registered in either order.
C6_TaskMapsAgree ==
  \A f \in FrameworkIDs :
    getFramework(M, f) =>
      \A t \in TaskIDs :
        /\ ftasks[f][t] # NoId =>
             getSlave(M, ftasks[f][t]) /\ hasTask(M, ftasks[f][t], f, t)
        /\ \A s \in SlaveIDs :
             getSlave(M, s) /\ hasTask(M, s, f, t) => ftasks[f][t] = s

\* The framework re-registers after the slave and takes the slave's task.
C6_Witness ==
  /\ \E m \in out : m.type = "FrameworkRegistered" /\ m.f = 0
  /\ \E t \in TaskIDs : ftasks[0][t] = 0 /\ hasTask(M, 0, 0, t)

\* C7: no framework id is both registered and completed, whatever the
\* interleaving of re-registration (its validation in flight included) and
\* removal.
C7_RegisteredNotCompleted ==
  \A f \in FrameworkIDs :
    ~(getFramework(M, f) /\ \E i \in 1..Len(completed) : completed[i] = f)

\* C8: an elected master that detects another leader or none, or that loses
\* its candidacy, terminates; a terminated master takes no further step.
C8_DemotedMasterExits ==
  [][/\ proc = "running"
     /\ elected /\ lastEvent' = "detected" /\ leader' # "self"
          => proc' = "exited"
     /\ elected /\ lastEvent' = "lostCandidacy" => proc' = "exited"]_vars

\* The elected master has detected another leader and exited.
C8_Witness ==
  proc = "exited" /\ lastEvent = "detected" /\ leader = "other"

\* What the handlers of messages read and write, the counter of dropped
\* messages apart.
RegistryState ==
  <<proc, leader, recovered, nextFrameworkId, nextSlaveId, nextOfferId, fw,
    completed, principals, fpending, ftasks, fexecs, foffers, sl, stasks,
    sexecs, soffers, sused, srecovered, sregistering, sreregistering,
    sremoving, sremoved, offers, registry, regQueue, alloc, validating,
    launching, timers>>

\* C9: while the master is not elected, or is elected and has not recovered,
\* a message of a framework or worker is dropped: the registry state stays
\* as it is, nothing is sent, and dropped_messages grows by one.
C9_DroppedUnlessServing ==
  [][lastEvent' = "message" /\ ~Serving
       => /\ dropped' = dropped + 1
          /\ UNCHANGED RegistryState
          /\ out' = {}]_vars

\* A message was dropped by the elected master while it recovers.
C9_Witness ==
  /\ lastEvent = "message" /\ dropped > 0
  /\ elected /\ recovered = "pending"

\* C11: after the registered address of a framework exited, the framework is
\* removed when its failover timeout elapses if and only if it has not
\* re-registered successfully since: a framework that stays disconnected is
\* removed in the end, and the timer removes no connected framework.
C11_RemovedUnlessReregistered ==
  /\ \A f \in FrameworkIDs :
       (getFramework(M, f) /\ ~fw[f].connected)
         ~> (~getFramework(M, f) \/ fw[f].connected)
  /\ [][\A f \in FrameworkIDs :
          getFramework(M, f) /\ fw[f].connected /\ lastEvent' = "event"
            => getFramework(M, f)']_vars

\* The offer o, outstanding before the step, is gone after it.
OfferRemoved(o) == proc' = "running" /\ getOffer(M, o) /\ offers'[o] = NoOffer
\* The step sent RescindResourceOffer for o.
Rescinded(o) == \E m \in out' : m.type = "RescindResourceOffer" /\ m.t = o

RecoveredReadmitted(s) ==
  /\ proc = "running" /\ proc' = "running"
  /\ regQueue # <<>> /\ regQueue' = Tail(regQueue)
  /\ Head(regQueue).cb = "_reregisterSlave" /\ Head(regQueue).id = s
  /\ s \in registry

\* The re-registration timeout asks the registrar to remove slave s.
RemovedByTimeout(s) ==
  /\ srecovered # {} /\ srecovered' = {}
  /\ \E i \in 1..Len(regQueue') :
       /\ i > Len(regQueue)
       /\ regQueue'[i].op = "remove" /\ regQueue'[i].id = s

RefusedWhenRemoved == {"ReregisterSlave", "StatusUpdate", "ExitedExecutor"}

\* What the master holds, the order of use of the removed ids apart.
HeldState ==
  <<proc, nextFrameworkId, nextSlaveId, nextOfferId, fw, completed,
    principals, fpending, ftasks, fexecs, foffers, sl, stasks, sexecs,
    soffers, sused, srecovered, sregistering, sreregistering, sremoving,
    offers, registry, regQueue, alloc, validating, launching, timers>>

NoTaskOn(s) == \A f \in FrameworkIDs, t \in TaskIDs : ~hasTask(M, s, f, t)
\* A registered worker that has no task at the master sent a status update:
\* the update is for a task the master does not have on that worker.
UpdateOfUnknownTask(w) ==
  /\ lastEvent' = "StatusUpdate"
  /\ wid[w] # NoId /\ getSlave(M, wid[w]) /\ NoTaskOn(wid[w])

\* C15: a status update from a registered worker for a task the master does
\* not have on that worker is dropped: it is not forwarded to the framework
\* and changes no state of the master.
C15_UnknownTaskUpdateDropped ==
  [][\A w \in Worker :
       UpdateOfUnknownTask(w) =>
         /\ out' = {}
         /\ UNCHANGED <<HeldState, sremoved>>]_vars

\* C15 as the code has it: the update changes no state of the master, but
\* the master has forwarded it to the framework, when that is registered,
\* before it looks for the task.
C15_UnknownTaskUpdateForwarded ==
  [][\A w \in Worker :
       UpdateOfUnknownTask(w) =>
         /\ UNCHANGED <<HeldState, sremoved>>
         /\ transitions' = {}
         /\ \A m \in out' : /\ m.type = "StatusUpdate" /\ m.s = wid[w]
                            /\ getFramework(M, m.f) /\ m.to = fw[m.f].pid
         /\ Cardinality(out') <= 1]_vars

\* The update of a task the master does not hold was forwarded to the
\* framework.
C15_Witness ==
  /\ lastEvent = "StatusUpdate" /\ getSlave(M, 1) /\ NoTaskOn(1)
  /\ \E m \in out : m.type = "StatusUpdate" /\ m.s = 1 /\ m.to = fw[1].pid
  /\ transitions = {}

\* The master handled a StatusUpdateAcknowledgement and forwarded it to the
\* slave as m; it held the task the acknowledgement names.
Acknowledged(m) ==
  /\ proc' = "running" /\ lastEvent' = "message"
  /\ m \in out' /\ m.type = "StatusUpdateAcknowledgement"
  /\ hasTask(M, m.s, m.f, m.t)

\* C16: handling a StatusUpdateAcknowledgement that it does not drop, the
\* master removes the task exactly when the task is terminal and the uuid
\* acknowledged is the uuid of the last update recorded for the task;
\* otherwise the task stays.
C16_RemovedWhenTerminalAcknowledged ==
  [][\A m \in out' :
       Acknowledged(m) =>
         LET task == stasks[m.s][m.f][m.t]
         IN stasks'[m.s][m.f][m.t] = NoTask
              <=> isTerminalState(task.state) /\ ToString(task.uuid) = m.state
    ]_vars

\* C16 as the code has it: the task is removed exactly when the state of the
\* last update recorded for it (status_update_state, not the latest state of
\* the task) is terminal and its uuid is the one acknowledged; otherwise the
\* task stays as it is.
C16_RemovedWhenTerminalUpdateAcknowledged ==
  [][\A m \in out' :
       Acknowledged(m) =>
         LET task == stasks[m.s][m.f][m.t]
         IN IF isTerminalState(task.sus) /\ ToString(task.uuid) = m.state
            THEN stasks'[m.s][m.f][m.t] = NoTask
            ELSE stasks'[m.s][m.f][m.t] = task]_vars

\* The acknowledgement of its terminal update has removed a task.
C16_Witness ==
  /\ lastEvent = "message" /\ recovLog # {}
  /\ \E m \in out : /\ m.type = "StatusUpdateAcknowledgement" /\ m.state = "1"
                    /\ stasks[m.s][m.f][m.t] = NoTask

\* The step handled a ReconcileTasks of the registered scheduler that names
\* statuses (an explicit reconciliation).
ExplicitReconciliation ==
  lastEvent' = "message" /\ request'.f # NoId /\ request'.statuses # {}
\* The states of the updates the step sent to the framework for task t.
Answers(f, t) ==
  {m.state : m \in {n \in out' : /\ n.type = "StatusUpdate" /\ n.f = f
                                 /\ n.t = t /\ n.to = fw[f].pid}}
\* Slaves::transitioning for a slave id.
Transitional(s) ==
  s \in srecovered \/ s \in sreregistering \/ s \in sremoving

\* C17: for each status of a non-empty ReconcileTasks the master answers by
\* the first case that matches: task pending, TASK_STAGING; task known, its
\* state (which of its states is claim C18); task unknown and slave
\* registered, TASK_LOST; task unknown and slave recovered, re-registering
\* or being removed, no update; otherwise TASK_LOST.  It never answers
\* TASK_LOST for a task whose slave is in one of these three sets.
C17_ExplicitReconciliation ==
  [][ExplicitReconciliation =>
       \A x \in request'.statuses :
         LET f == request'.f
             known == ftasks[f][x.t]
         IN /\ IF x.t \in fpending[f] THEN Answers(f, x.t) = {"STAGING"}
               ELSE IF known # NoId
               THEN /\ Answers(f, x.t) # {}
                    /\ Answers(f, x.t) \subseteq
                         {stasks[known][f][x.t].state,
                          stasks[known][f][x.t].sus} \ {"NONE"}
               ELSE IF x.s # NoId /\ getSlave(M, x.s)
               THEN Answers(f, x.t) = {"LOST"}
               ELSE IF x.s # NoId /\ Transitional(x.s)
               THEN Answers(f, x.t) = {}
               ELSE Answers(f, x.t) = {"LOST"}
            /\ x.s # NoId /\ Transitional(x.s) => "LOST" \notin Answers(f, x.t)
    ]_vars

\* C17 as the code has it: the same cases, and a status that names no slave
\* and no task the master knows gets no update as long as any slave is
\* recovered, re-registering or being removed (Slaves::transitioning of
\* None); it gets TASK_LOST only when there is no such slave.
C17_ExplicitReconciliationOfAnySlave ==
  [][ExplicitReconciliation =>
       \A x \in request'.statuses :
         LET f == request'.f
             known == ftasks[f][x.t]
         IN /\ IF x.t \in fpending[f] THEN Answers(f, x.t) = {"STAGING"}
               ELSE IF known # NoId
               THEN /\ Answers(f, x.t) # {}
                    /\ Answers(f, x.t) \subseteq
                         {stasks[known][f][x.t].state,
                          stasks[known][f][x.t].sus} \ {"NONE"}
               ELSE IF x.s # NoId /\ getSlave(M, x.s)
               THEN Answers(f, x.t) = {"LOST"}
               ELSE IF \/ x.s # NoId /\ Transitional(x.s)
                       \/ x.s = NoId /\ \E s \in SlaveIDs : Transitional(s)
               THEN Answers(f, x.t) = {}
               ELSE Answers(f, x.t) = {"LOST"}
            /\ x.s # NoId /\ Transitional(x.s) => "LOST" \notin Answers(f, x.t)
    ]_vars

\* The scheduler asked for a task the master does not know on a slave that
\* is recovered or being removed, and got no update.
C17_Witness ==
  /\ lastEvent = "message" /\ request.f = 1 /\ out = {}
  /\ \E x \in request.statuses :
       /\ x.s # NoId /\ Transitional(x.s)
       /\ x.t \notin fpending[1] /\ ftasks[1][x.t] = NoId

\* The step handled a ReconcileTasks of the registered scheduler, and t is a
\* task of the framework that the master knows, that is not pending and that
\* the request covers (every task when it names none).
Reconciled(t) ==
  /\ lastEvent' = "message" /\ request'.f # NoId
  /\ ftasks[request'.f][t] # NoId /\ t \notin fpending[request'.f]
  /\ request'.statuses = {} \/ \E x \in request'.statuses : x.t = t

NotReported(s, tasks) ==
  {x \in FrameworkIDs \X TaskIDs :
     /\ hasTask(M, s, x[1], x[2])
     /\ ~\E y \in tasks : y[1] = x[1] /\ y[2] = x[2]}

\* What re-registering with report r makes of the master, for a worker the
\* master knows.
Reregistered(w, r) ==
  reregisterSlave(M, w, wid[w], SlaveCheckpoint(w), SlaveVersion(w),
                  r.tasks, r.execs)

\* C19: when a known worker re-registers without reporting a task the master
\* holds for it, a worker that told its version is sent the task in the
\* ReconcileTasks part of the SlaveReregistered reply, with the state of the
\* last update the master has of it, and the task stays as it is; for a
\* worker that told none the task becomes LOST, is removed, and the LOST
\* update goes to its framework.
C19_MissingTaskReconciled ==
  \A w \in SlavePids :
    Serving /\ wid[w] # NoId /\ getSlave(M, wid[w]) /\ sl[wid[w]].pid = w =>
      \A r \in Reports(wid[w]) :
        LET s == wid[w]
            after == Reregistered(w, r)
        IN /\ Msg("SlaveReregistered", w, NoId, s, NoId, "NONE") \in after.out
           /\ \A x \in NotReported(s, r.tasks) :
                LET f == x[1]
                    t == x[2]
                    task == stasks[s][f][t]
                IN IF sl[s].version
                   THEN /\ after.stasks[s][f][t] = task
                        /\ after.ftasks[f][t] = ftasks[f][t]
                        /\ Msg("ReconcileTasks", w, f, s, t,
                               IF task.sus # "NONE" THEN task.sus
                               ELSE task.state) \in after.out
                        /\ ~\E m \in after.out :
                             m.type = "StatusUpdate" /\ m.f = f /\ m.t = t
                   ELSE /\ ~hasTask(after, s, f, t)
                        /\ after.ftasks[f][t] = NoId
                        /\ <<task.state, "LOST">> \in after.transitions
                        /\ Msg("StatusUpdate", fw[f].pid, f, s, t, "LOST")
                             \in after.out
                        /\ ~\E m \in after.out :
                             m.type = "ReconcileTasks" /\ m.f = f /\ m.t = t

\* Witness: the worker that tells no version has re-registered without a task
\* the master held; the task is gone and its framework is told it is lost.
C19_Witness ==
  /\ lastEvent = "ReregisterSlave" /\ getSlave(M, 1) /\ ~sl[1].version
  /\ \E m \in out : m.type = "SlaveReregistered" /\ m.to = sl[1].pid
  /\ \E m \in out :
       /\ m.type = "StatusUpdate" /\ m.state = "LOST" /\ m.to = fw[1].pid
       /\ ~hasTask(M, 1, m.f, m.t)
       /\ \E y \in transitions : y[2] = "LOST"

\* The same for the worker that tells its version: the task is in the reply
\* and still in the master.
C19_WitnessVersioned ==
  /\ lastEvent = "ReregisterSlave" /\ getSlave(M, 1) /\ sl[1].version
  /\ \E m \in out : m.type = "SlaveReregistered" /\ m.to = sl[1].pid
  /\ \E m \in out :
       m.type = "ReconcileTasks" /\ m.to = sl[1].pid /\ hasTask(M, 1, m.f, m.t)


\* ------------------------------------------------------------------
\* C20: a worker re-registers with tasks of a completed framework.
\* ------------------------------------------------------------------
\* The frameworks of the completed buffer among those of the tasks reported.
CompletedIn(tasks) == {f \in {y[1] : y \in tasks} : CacheHas(completed, f)}

ShutdownFrameworkSent(st, pid, f) ==
  \E m \in st.out : m.type = "ShutdownFramework" /\ m.to = pid /\ m.f = f

\* A task a worker may still run of a framework the master has completed: the
\* ShutdownFramework of the removal did not reach it.
Stale == {<<f, 1, "RUNNING">> : f \in {g \in FrameworkIDs :
                                        CacheHas(completed, g)}}

\* The worker the master knows: reconcile() answers in the same step.
KnownWorkerShutDown ==
  \A w \in SlavePids :
    Serving /\ wid[w] # NoId /\ getSlave(M, wid[w]) =>
      \A r \in Reports(wid[w]), stale \in SUBSET Stale :
        LET tasks == r.tasks \cup stale
            after == reregisterSlave(M, w, wid[w], SlaveCheckpoint(w),
                                     SlaveVersion(w), tasks, r.execs)
        IN \A f \in CompletedIn(tasks) : ShutdownFrameworkSent(after, w, f)

\* The worker the registrar re-admits: _reregisterSlave() answers when the
\* registrar is done.
ReadmittedWorkerShutDown ==
  Serving /\ regQueue # <<>> /\ Head(regQueue).cb = "_reregisterSlave" =>
    LET r == Head(regQueue)
        a == apply(registry, r, strict)
        after == _reregisterSlave([M EXCEPT !.regQueue = Tail(@),
                                            !.registry = a.registry],
                                  r, a.result)
    IN getSlave(after, r.id) =>
         \A f \in CompletedIn(r.tasks) : ShutdownFrameworkSent(after, r.pid, f)

\* C20: a worker that re-registers reporting tasks of a framework of the
\* completed buffer is sent a ShutdownFramework for that framework, when the
\* master knows the worker and when the registrar re-admits it.
C20_CompletedFrameworkShutDown ==
  KnownWorkerShutDown /\ ReadmittedWorkerShutDown


\* ------------------------------------------------------------------
\* C21: the connection of a registered worker exits.
\* ------------------------------------------------------------------
\* What the exit of the process at pid makes of the master.
AfterExit(pid) == exited(M, pid, 0)

\* The resources the allocator is handed back when slave s loses the
\* frameworks F: those of their live tasks, of their executors, and of the
\* offers on s.
HandedBack(s, F) ==
  Sum(LAMBDA x : IF isTerminalState(TaskAt(x).state) THEN 0 ELSE TaskAt(x).res,
      {x \in Slots : x[1] = s /\ x[2] \in F})
  + ExecRes * Cardinality(sexecs[s] \cap F)
  + OfferedOn(s)

\* C21: when the connection of a registered worker exits, a worker that does
\* not checkpoint is removed at once; a worker that checkpoints stays
\* registered, disconnected and inactive, the tasks and executors on it of
\* registered frameworks that checkpoint are unchanged, and each task on it
\* of a registered framework that does not checkpoint is reported LOST to
\* the framework and removed, its resources handed back to the allocator.
C21_WorkerExited ==
  \A pid \in SlavePids, s \in SlaveIDs :
    Serving /\ proc = "running" /\ sl[s].pid = pid =>
      LET after == AfterExit(pid)
          kept == {f \in FrameworkIDs : getFramework(M, f) /\ fw[f].checkpoint}
          evicted == {f \in FrameworkIDs :
                        getFramework(M, f) /\ ~fw[f].checkpoint}
      IN IF ~sl[s].checkpoint
         THEN ~getSlave(after, s) /\ CacheHas(after.sremoved, s)
         ELSE /\ after.sl[s].pid = pid
              /\ ~after.sl[s].connected /\ ~after.sl[s].active
              /\ \A f \in kept :
                   /\ after.stasks[s][f] = stasks[s][f]
                   /\ after.ftasks[f] = ftasks[f]
                   /\ (f \in after.sexecs[s]) = (f \in sexecs[s])
                   /\ after.fexecs[f] = fexecs[f]
              /\ \A f \in evicted, t \in TaskIDs :
                   hasTask(M, s, f, t) =>
                     /\ ~hasTask(after, s, f, t)
                     /\ after.ftasks[f][t] = NoId
                     /\ <<stasks[s][f][t].state, "LOST">> \in after.transitions
                     /\ Msg("StatusUpdate", fw[f].pid, f, s, t, "LOST")
                          \in after.out
              /\ \A n \in after.recovLog : n = 1
              /\ alloc[s] # NoId =>
                   after.alloc[s] = alloc[s] - HandedBack(s, evicted)


\* Witness: the connection of the checkpointing worker has exited; the worker
\* is still registered, disconnected, and a task of framework 1, which does
\* not checkpoint, was reported lost and removed.
C21_Witness ==
  /\ lastEvent = "event"
  /\ \E s \in SlaveIDs :
       /\ getSlave(M, s) /\ sl[s].checkpoint /\ ~sl[s].connected
       /\ \E m \in out :
            /\ m.type = "StatusUpdate" /\ m.state = "LOST" /\ m.s = s
            /\ m.to = fw[m.f].pid /\ ~fw[m.f].checkpoint
            /\ ~hasTask(M, s, m.f, m.t)
       /\ 1 \in recovLog

\* The same worker keeps the tasks of framework 0, which checkpoints.
C21_WitnessKept ==
  /\ lastEvent = "event" /\ out = {}
  /\ getSlave(M, 0) /\ ~sl[0].connected /\ getFramework(M, 0)
  /\ \E t \in TaskIDs : hasTask(M, 0, 0, t) /\ ftasks[0][t] = 0

\* The worker that does not checkpoint is removed with its tasks.
C21_WitnessRemoved ==
  /\ lastEvent = "event" /\ ~getSlave(M, 1) /\ CacheHas(sremoved, 1)
  /\ \E y \in transitions : y[2] = "LOST"


\* ------------------------------------------------------------------
\* C22: what is left of a framework that has unregistered.
\* ------------------------------------------------------------------
\* Framework f has been removed: it is in the completed buffer and not
\* registered.
Unregistered(f) == CacheHas(completed, f) /\ ~getFramework(M, f)

C23_HandledInArrivalOrder ==
  \A i \in 1..Len(limiter.waiting) :
    limiter.last[limiter.waiting[i].from] < limiter.waiting[i].seq


\* The messages that wait in the limiter.
WaitingMessages(l) ==
  Cardinality({i \in 1..Len(l.waiting) : l.waiting[i].kind = "message"})

\* The master tells pid that it dropped a message for the capacity.
CapacityExceeded(o, pid) ==
  \E m \in o : /\ m.type = "FrameworkError" /\ m.to = pid
               /\ m.t = RateCapacity /\ m.state = "capacity exceeded"

\* C24: the count of messages waiting in the limiter of a principal stays
\* between zero and the capacity C and is the number of messages that wait;
\* a message that arrives while C messages wait reaches no handler and is
\* not kept, and its sender is sent a FrameworkError that names capacity(C).
C24_CapacityBound ==
  [][/\ limiter'.messages \in 0..RateCapacity
     /\ limiter'.messages = WaitingMessages(limiter')
     /\ lastEvent' = "exceeded" =>
          /\ limiter.messages = RateCapacity
          /\ \E pid \in principals : CapacityExceeded(out', pid)
          /\ limiter'.waiting = limiter.waiting
          /\ limiter'.last = limiter.last
          /\ fw' = fw /\ principals' = principals /\ completed' = completed
          /\ validating' = validating /\ timers' = timers]_vars

\* Witness: a message was dropped while as many as the capacity allows wait.
C24_Witness ==
  /\ lastEvent = "exceeded" /\ limiter.messages = RateCapacity
  /\ WaitingMessages(limiter) = RateCapacity
  /\ \E pid \in principals : CapacityExceeded(out, pid)

\* C25: each message that the master drops because the capacity of a limiter
\* is exceeded adds one to dropped_messages.
C25_DropCounted ==
  [][(\E pid \in FrameworkPids : CapacityExceeded(out', pid)) =>
       dropped' = dropped + 1]_vars

\* ------------------------------------------------------------------
\* The registrar operations a strict registry refuses.
\* ------------------------------------------------------------------
\* The operation asks to admit an admitted id, or to readmit or to remove
\* an id the registry does not hold.
Refused(r, reg) ==
  \/ r.op = "admit" /\ r.id \in reg
  \/ r.op \in {"readmit", "remove"} /\ r.id \notin reg
\* The step performs the operation at the head of the registrar's queue.
Performs == regQueue # <<>> /\ lastEvent' = "perform"

\* C26: AdmitSlave of an admitted id, ReadmitSlave of an unknown id and
\* RemoveSlave of an unknown id fail under a strict registry, and under a
\* non-strict one leave the registry as it was and report no mutation.
C26_RefusedOperationsNoOp ==
  [][(Performs /\ Refused(Head(regQueue), registry)) =>
       IF strict THEN \A m \in out' : m.state = "error"
       ELSE registry' = registry /\ \A m \in out' : m.state = "false"]_vars

\* C26 as the code has it: under a non-strict registry the readmission of an
\* unknown id admits the id and reports a mutation; the other two refused
\* operations are no-ops; under a strict registry all three fail and leave
\* the registry as it was.
C26_RefusedOperations ==
  [][(Performs /\ Refused(Head(regQueue), registry)) =>
       IF strict
       THEN registry' = registry /\ \A m \in out' : m.state = "error"
       ELSE IF Head(regQueue).op = "readmit"
       THEN /\ registry' = registry \cup {Head(regQueue).id}
            /\ \A m \in out' : m.state = "true"
       ELSE registry' = registry /\ \A m \in out' : m.state = "false"]_vars

\* A non-strict registry has just answered "no mutation" to the removal of
\* an id it does not hold.
C26_Witness ==
  /\ ~strict /\ lastEvent = "perform"
  /\ \E m \in out : m.type = "remove" /\ m.state = "false"
                    /\ m.s \notin registry
\* A non-strict registry has just admitted the unknown id of a readmission.
C26_WitnessReadmitted ==
  /\ ~strict /\ lastEvent = "perform"
  /\ \E m \in out : m.type = "readmit" /\ m.state = "true" /\ m.s \in registry
\* A strict registry has just failed the admission of an admitted id.
C26_WitnessStrict ==
  /\ strict /\ lastEvent = "perform"
  /\ \E m \in out : m.type = "admit" /\ m.state = "error"

\* ------------------------------------------------------------------
\* The cache of removed slaves.
\* ------------------------------------------------------------------
\* The id is in slaves.removed before the step and not after it.
LeavesRemoved(id) == CacheHas(sremoved, id) /\ ~CacheHas(sremoved', id)
\* The step puts another id into the full cache, whose least recently used
\* entry is the id.
EvictsRemoved(id) ==
  /\ Len(sremoved) = MaxRemoved /\ Head(sremoved) = id
  /\ \E other \in SlaveIDs : ~CacheHas(sremoved, other)
                             /\ sremoved' = Append(Tail(sremoved), other)

\* C27: while the master runs, an id leaves slaves.removed only when the
\* full cache evicts its least recently used entry for a new one; no handler
\* takes a given id out.
C27_RemovedOnlyEvicted ==
  [][proc' = "running" =>
       \A id \in SlaveIDs : LeavesRemoved(id) => EvictsRemoved(id)]_vars

\* The removal of a slave is still with the registrar, and the cache, full,
\* has already evicted the slave's id for that of a slave removed later.
C27_Witness ==
  /\ proc = "running" /\ Len(sremoved) = MaxRemoved
  /\ \E i \in 1..Len(regQueue) :
       /\ regQueue[i].op = "remove" /\ regQueue[i].pid # NoPid
       /\ ~CacheHas(sremoved, regQueue[i].id)

\* ------------------------------------------------------------------
\* The health check of a slave.
\* ------------------------------------------------------------------
\* The step is the one in which the observer of the slave gives up and asks
\* the master to shut the slave down.
AsksShutdown(s) == observer[s].at = "waiting" /\ observer'[s].at = "stopped"

\* A pong sets the count of timeouts of the observer it reaches to zero.
PongResets ==
  lastEvent' = "PONG" =>
    \A s \in SlaveIDs :
      observer'[s] # observer[s] \/ observer[s].timeouts = 0
        => observer'[s].timeouts = 0 /\ ~observer'[s].pinged

\* C28: an observer asks for the shutdown of its slave only when more than
\* MAX_SLAVE_PING_TIMEOUTS pings in a row, sent since the last pong, went
\* without a pong; a pong sets the count of missed pings to zero.
C28_ShutdownAfterMoreThanMax ==
  [][/\ \A s \in SlaveIDs :
          AsksShutdown(s) => observer[s].sent > MaxSlavePingTimeouts
     /\ PongResets]_vars

\* C28 as the code has it: the observer asks for the shutdown at the timeout
\* of the MAX_SLAVE_PING_TIMEOUTS-th ping in a row without a pong, not before
\* and without waiting for one more; a pong sets the count to zero.
C28_ShutdownAtMax ==
  [][/\ \A s \in SlaveIDs :
          /\ AsksShutdown(s) => /\ observer[s].sent = MaxSlavePingTimeouts
                                /\ observer'[s].timeouts = MaxSlavePingTimeouts
          /\ (/\ lastEvent' = "timeout" /\ observer[s].at = "waiting"
              /\ observer'[s] # observer[s]
              /\ observer[s].pinged
              /\ observer[s].timeouts + 1 >= MaxSlavePingTimeouts)
               => AsksShutdown(s)
     /\ PongResets]_vars

\* An observer has given up after MAX_SLAVE_PING_TIMEOUTS pings without a
\* pong, having counted anew after an earlier pong.
C28_Witness ==
  \E s \in SlaveIDs :
    /\ lastEvent = "timeout" /\ observer[s].at = "stopped"
    /\ observer[s].shutdown /\ getSlave(M, s)
    /\ observer[s].timeouts = MaxSlavePingTimeouts
    /\ observer[s].sent = MaxSlavePingTimeouts
\* A pong has just reset an observer that waits for its ping timeout.
C28_WitnessPong ==
  \E s \in SlaveIDs :
    /\ lastEvent = "PONG" /\ observer[s].at = "waiting"
    /\ observer[s].timeouts = 0 /\ ~observer[s].pinged /\ observer[s].sent = 0

\* ------------------------------------------------------------------
\* Futures.
\* ------------------------------------------------------------------
\* The callback was registered for the state, or for any state.
CalledFor(kind, state) ==
  \/ kind = "onAny"
  \/ kind = "onReady" /\ state = "READY"
  \/ kind = "onFailed" /\ state = "FAILED"
  \/ kind = "onDiscarded" /\ state = "DISCARDED"
\* The step is a set, a fail, a discard or a discard request on the future.
Calls(i) ==
  /\ lastEvent' \in {"set", "fail", "Promise::discard", "discard"}
  /\ futures'.last.f = i
\* The future is not pending and the call that completed it has returned.
Settled(fs, i) == fs.data[i].state # "PENDING" /\ i \notin fs.completing

\* C29: a future leaves the pending state at most once.  Of the set, fail
\* and discard calls on it exactly one returns true once it is not pending;
\* from then on its state, value and failure message never change, every
\* further set, fail, discard or discard request returns false and changes
\* nothing, and once the completing call has returned every callback
\* registered for the state the future reached, or for any state, has been
\* called exactly once, and no callback more than once.
C29_SingleAssignment ==
  [][\A i \in FutureIDs :
       /\ futures.data[i].state # "PENDING"
            => /\ futures'.data[i].state = futures.data[i].state
               /\ futures'.data[i].t = futures.data[i].t
               /\ futures'.data[i].message = futures.data[i].message
       /\ futures'.won[i] = IF futures'.data[i].state = "PENDING" THEN 0 ELSE 1
       /\ Calls(i) /\ futures.data[i].state # "PENDING"
            => /\ ~futures'.last.result
               /\ futures'.data = futures.data
               /\ futures'.runs = futures.runs
       /\ \A c \in CallbackIDs :
            /\ futures'.runs[c] <= 1
            /\ (/\ futures'.registered[c].f = i
                /\ futures'.registered[c].kind # "onDiscard"
                /\ Settled(futures', i))
                 => futures'.runs[c] =
                      IF CalledFor(futures'.registered[c].kind,
                                   futures'.data[i].state) THEN 1 ELSE 0]_vars

\* A fail on a future that is ready has just returned false; the future has
\* a discard request, its onReady callback, registered while it was pending,
\* and its onAny callback have been called once.
C29_Witness ==
  /\ lastEvent = "fail" /\ ~futures.last.result
  /\ futures.data[1].state = "READY" /\ Settled(futures, 1)
  /\ futures.data[1].discard /\ futures.won[1] = 1
  /\ futures.registered[1] = [f |-> 1, kind |-> "onReady"]
  /\ futures.registered[2] = [f |-> 1, kind |-> "onAny"]
  /\ futures.runs[1] = 1 /\ futures.runs[2] = 1
\* A discard request on a discarded future has just returned false.
C29_WitnessDiscarded ==
  /\ lastEvent = "discard" /\ ~futures.last.result
  /\ futures.data[1].state = "DISCARDED" /\ Settled(futures, 1)
  /\ ~futures.data[1].discard


\* C30: the future await returned is ready only when every future of the
\* list has left the pending state; its value is then the list await was
\* called with, the same futures in the same order and number; it never
\* fails, whatever became of the futures of the list, and the CHECK of the
\* process never fails.
C30_AwaitKeepsList ==
  /\ proc = "running"
  /\ futures.data[0].state # "FAILED"
  /\ futures.data[0].state = "READY"
       => /\ futures.data[0].t = futures.awaited
          /\ \A k \in 1..Len(futures.awaited) :
               futures.data[futures.awaited[k]].state # "PENDING"

\* The future await returned is ready and holds the list <<2, 1>> it was
\* called with, of which future 1 has failed and future 2 was discarded.
C30_Witness ==
  /\ futures.data[0].state = "READY"
  /\ futures.awaited = <<2, 1>> /\ futures.data[0].t = <<2, 1>>
  /\ futures.data[1].state = "FAILED" /\ futures.data[2].state = "DISCARDED"
  /\ futures.await.at = "terminated" /\ futures.await.ready = 2

\* ------------------------------------------------------------------
\* Kills of pending tasks.
\* ------------------------------------------------------------------
\* C31: a task of a launch, for which the master answered a KillTask with
\* TASK_KILLED while the launch waited for its authorizations, is not sent to
\* the slave when the launch is processed, whatever other launch of the
\* framework names the same task id in the meantime.
C31_KilledPendingNotLaunched ==
  \A i \in 1..Len(outcome.results) :
    outcome.ids[i] \in outcome.killed => outcome.results[i] # "RunTask"


\* C32: once a launch has been processed after its authorizations, none of
\* its tasks is left in the pending tasks of its framework, also when the
\* slave was removed or disconnected in the meantime.
C32_ProcessedLaunchNotPending ==
  (lastEvent = "event" /\ outcome.f # NoId /\ getFramework(M, outcome.f)) =>
    \A i \in 1..Len(outcome.ids) : outcome.ids[i] \notin fpending[outcome.f]


\* C33: after every handled event the keys of frameworks.principals are
\* exactly the addresses of the registered frameworks, no two registered
\* frameworks share an address, and the master has not aborted.
C33_PrincipalsAreRegisteredPids ==
  /\ proc # "aborted"
  /\ principals = {fw[f].pid : f \in {g \in FrameworkIDs : getFramework(M, g)}}
  /\ \A f, g \in FrameworkIDs :
       (getFramework(M, f) /\ getFramework(M, g) /\ fw[f].pid = fw[g].pid)
         => f = g


\* C34: a LaunchTasks message of a framework removes no offer of another
\* framework (and so hands no resources of such an offer back to the
\* allocator), whatever offer ids it names.
LaunchedBy(f) ==
  /\ lastEvent' = "message"
  /\ IF launching' # launching
     THEN \E l \in launching' \ launching : l.f = f
     ELSE outcome'.f = f
C34_LaunchRemovesOwnOffersOnly ==
  [][\A o \in OfferIDs :
       (offers[o].fid # NoId /\ offers'[o].fid = NoId /\ lastEvent' = "message")
         => LaunchedBy(offers[o].fid)]_vars


\* C35: a re-registration the master rejects because it comes, without
\* failover, from another address than the registered one changes nothing
\* about the registered framework: its address, its connected and active
\* flags, its reregisteredTime and its offers stay as they were.
RejectedReregistration(v) ==
  /\ v \in validating /\ v \notin validating' /\ lastEvent' = "event"
  /\ proc' = "running"
  /\ ~v.failover /\ getFramework(M, v.id) /\ v.from # fw[v.id].pid
C35_RejectedReregistrationNoChange ==
  [][\A v \in validating :
       RejectedReregistration(v)
         => fw'[v.id] = fw[v.id] /\ foffers'[v.id] = foffers[v.id]]_vars


\* The removals of slaves the registrar has not completed.
Removals == {regQueue[i] : i \in {j \in 1..Len(regQueue) :
                                    regQueue[j].cb = "_removeSlave"}}
\* The last step sent TASK_LOST for task t of framework f.
SentLost(f, t) ==
  \E m \in out : /\ m.type = "StatusUpdate" /\ m.f = f /\ m.t = t
                 /\ m.state = "LOST"
\* The last step sent the update of a removal: TASK_LOST for a task on the
\* slave it removes.
SentUpdate(r) ==
  \E m \in out : /\ m.type = "StatusUpdate" /\ m.state = "LOST"
                 /\ m.s = r.id /\ <<m.f, m.t, "LOST">> \in r.tasks
\* The last step sent the LostSlave notice of a removal.
SentLostSlave(r) == \E m \in out : m.type = "LostSlave" /\ m.s = r.id

\* The last step was a reconciliation that answered TASK_LOST for a task of
\* the removal r, asked by a status that names a slave of Named.
ReconciledLost(r, Named) ==
  \E x \in r.tasks :
    /\ lastEvent = "message" /\ request.f = x[1] /\ SentLost(x[1], x[2])
    /\ \A y \in request.statuses : y.s \in Named

\* C36: as long as the registrar has not completed the removal of a slave,
\* no framework gets the TASK_LOST updates for the tasks the slave was
\* running nor the LostSlave notice, and no reconciliation answers TASK_LOST
\* for one of these tasks.  (The answer to a launch that waited for its
\* authorizations when the slave went is not an update of the removal.)
C36_LostAfterRegistrar ==
  [][\A r \in Removals' :
       /\ ~SentLostSlave(r)'
       /\ launching' = launching => ~SentUpdate(r)'
       /\ ~ReconciledLost(r, SlaveIDs \cup {NoId})']_vars

\* C36 as the code has it: a reconciliation is kept from answering
\* TASK_LOST for these tasks when its status names the slave that is being
\* removed or no slave; a status that names another slave is answered for
\* that slave.
C36_LostAfterRegistrarForNamedSlave ==
  [][\A r \in Removals' :
       /\ ~SentLostSlave(r)'
       /\ launching' = launching => ~SentUpdate(r)'
       /\ ~ReconciledLost(r, {r.id, NoId})']_vars

\* The scheduler reconciled a task of the slave that is being removed,
\* naming the slave, and got no answer.
C36_Witness ==
  \E r \in Removals :
    /\ lastEvent = "message" /\ out = {}
    /\ \E y \in request.statuses :
         y.s = r.id /\ <<request.f, y.t, "LOST">> \in r.tasks

\* The registrar completed the removal of slave 1, and the master sent
\* TASK_LOST for its task and the LostSlave notice.
C36_WitnessRemoved ==
  /\ lastEvent = "event" /\ Removals = {}
  /\ \E m \in out : m.type = "LostSlave" /\ m.s = 1
  /\ \E m \in out : m.type = "StatusUpdate" /\ m.state = "LOST" /\ m.s = 1


\* The resources of slave s that launches hold while they wait for their
\* authorizations.
Launching(s) ==
  Sum(LAMBDA l : l.offered, {l \in launching : l.s = s})
\* The resources the frameworks use on slave s.
UsedOn(s) == Sum(LAMBDA f : sused[s][f], FrameworkIDs)

\* C37: the resources of an offer answered with LaunchTasks are accounted
\* for exactly once: what the allocator counts as allocated on a slave is
\* what is offered on it, what launches hold that have not been processed,
\* and what the tasks and executors on it use; so when a launch has been
\* processed, what its tasks and their new executors use and what went back
\* to the allocator is what was offered.
C37_OfferedAccountedOnce ==
  \A s \in SlaveIDs :
    alloc[s] # NoId => alloc[s] = OfferedOn(s) + Launching(s) + UsedOn(s)

\* A launch of two tasks has been processed: one task was sent to the slave
\* and uses resources, the other was refused and what the tasks did not use
\* went back to the allocator.
C37_Witness ==
  /\ lastEvent = "event" /\ outcome.f = 1 /\ Len(outcome.results) = 2
  /\ \E i, j \in 1..2 : /\ outcome.results[i] = "RunTask"
                         /\ outcome.results[j] = "TASK_ERROR"
  /\ launching = {} /\ getSlave(M, 1)
  /\ UsedOn(1) > 0 /\ alloc[1] = UsedOn(1) + OfferedOn(1)


\* C38: once the detector has seen that the leadership changed or that
\* there is no leader, a fetch started for an earlier leader that completes
\* afterwards does not make it report that earlier leader.
C38_StaleFetchNotReported ==
  (lastEvent = "fetched" /\ detector.fetchedFor # detector.observed)
    => detector.leader # detector.fetchedFor


\* The future whose completion is the result of after: the future of the
\* handler when the handler decided, the future itself otherwise.
Deciding == IF futures.after.by = "handler" THEN 2 ELSE 1
\* The handler ran at most once, exactly when it decided, and a result of
\* after is that of the deciding future.
OneDecides ==
  /\ futures.after.handled <= 1
  /\ futures.after.handled = 1 <=> futures.after.by = "handler"
  /\ futures.data[0].state # "PENDING" =>
       /\ futures.after.by # "none"
       /\ futures.data[0].state = futures.data[Deciding].state
       /\ futures.data[0].t = futures.data[Deciding].t
       /\ futures.data[0].message = futures.data[Deciding].message

C39_WitnessRace ==
  /\ futures.after.by = "handler" /\ ~futures.after.pending
  /\ futures.data[1].state = "READY"
  /\ futures.data[0].state = "READY" /\ futures.data[0].t = 0


\* C40: after every handled event every outstanding offer names a
\* registered and active framework and a registered, connected and active
\* slave, both of which hold it; so no check on an offer (unknown framework
\* or slave of an offer, offer on a disconnected slave) can fail.
C40_OffersOfActiveParties ==
  \A o \in OfferIDs :
    getOffer(M, o) =>
      LET f == offers[o].fid
          s == offers[o].sid
      IN /\ getFramework(M, f) /\ fw[f].active /\ o \in foffers[f]
         /\ getSlave(M, s) /\ sl[s].connected /\ sl[s].active
         /\ o \in soffers[s]
         /\ \A g \in FrameworkIDs : OfferError(M, g, <<o>>) # "CHECK"

\* Framework 1 became inactive while it held an offer: the master rescinded
\* the offer, and the framework, registered and inactive, holds none.
C40_Witness ==
  /\ getFramework(M, 1) /\ ~fw[1].active /\ foffers[1] = {}
  /\ \E m \in out : m.type = "RescindResourceOffer" /\ m.to = fw[1].pid
  /\ \A o \in OfferIDs : ~getOffer(M, o)
====
